---------------------------- MODULE Spec2Model ----------------------------
(***************************************************************************)
(* A model of the honeyclean profiling core: type inference, statistical   *)
(* dispatch, the recommendation rules, the type converter and the          *)
(* orchestrator profile_dataset.                                           *)
(*                                                                         *)
(* Conventions.                                                            *)
(*   - A Python dict is a function whose DOMAIN is the set of its keys;    *)
(*     dict.get(k, d) is Get(m, k, d).                                     *)
(*   - A percentage or a ratio is kept in hundredths (5.0 is 500, 5.01 is  *)
(*     501, a coefficient of variation of 1 is 100): Hundredths(n).        *)
(*   - A recommendation, in the code a (zh, en) pair of formatted strings, *)
(*     is a record [kind, error, value]: the rule that produced it, the    *)
(*     error text it carries ("" when none) and the number formatted into  *)
(*     it (0 when none).                                                   *)
(***************************************************************************)
EXTENDS Integers, Sequences, FiniteSets, TLC

VARIABLES
    pc,               \* position of the modelled call
    fn,               \* SpecRec: which recommendation function is called
    analysis,         \* SpecRec: the statistics mapping passed in
    recommendations,  \* SpecRec: the list returned
    series,           \* SpecInfer: the column passed to infer_column_type
    type_info,        \* SpecInfer: the mapping infer_column_type returns
    data,             \* SpecConvert: the DataFrame passed in, column -> series
    converted_df,     \* SpecConvert: the working copy, column -> dtype
    conversion_report,\* SpecConvert: the report being filled
    col_i,            \* SpecConvert: index of the column the loop is at
    call_log,         \* SpecConvert: the conversion attempts made, in order
    df,               \* SpecProfile: the dataset, column -> series
    config,           \* SpecProfile: target_col and id_cols of the configuration
    profiling_results,\* SpecProfile: the result mapping being assembled
    prof_i,           \* SpecProfile: index of the column the loop is at
    raised            \* SpecProfile: the exception that left profile_dataset, or ""

recVars   == <<fn, analysis, recommendations>>
inferVars == <<series, type_info>>

convVars  == <<data, converted_df, conversion_report, col_i, call_log>>

profVars  == <<df, config, profiling_results, prof_i, raised>>

vars == <<pc, recVars, inferVars, convVars, profVars>>

\* the value of a variable the specification at hand does not use
Idle == "idle"

RecIdle   == fn = Idle /\ analysis = Idle /\ recommendations = Idle
InferIdle == series = Idle /\ type_info = Idle
ProfIdle  == /\ df = Idle /\ config = Idle /\ profiling_results = Idle
             /\ prof_i = 0 /\ raised = ""
ConvIdle  == /\ data = Idle /\ converted_df = Idle /\ conversion_report = Idle
             /\ col_i = 0 /\ call_log = <<>>

----------------------------------------------------------------------------
(* Helpers for dicts and lists *)

EmptyDict == [k \in {} |-> 0]

Get(m, k, d) == IF k \in DOMAIN m THEN m[k] ELSE d

Hundredths(n) == n * 100

Abs(x) == IF x < 0 THEN -x ELSE x

Rec(kind, error, value) == [kind |-> kind, error |-> error, value |-> value]

\* recommendations.append(...) under a condition
AppendIf(list, cond, rec) == IF cond THEN Append(list, rec) ELSE list

\* the optional entry of a dict: absent, or key k with one of the values vs
Opt(k, vs) == {EmptyDict} \cup {(k :> v) : v \in vs}

----------------------------------------------------------------------------
(* DataCleaningRecommendations *)

\* The "analysis error" short circuit placed after the missing-value rule.
Mut_get_numeric_recommendations(a) ==
    LET mp == Get(a, "missing_percentage", 0)
        r1 == AppendIf(<<>>, mp > Hundredths(5), Rec("missing", "", mp))
    IN  IF "error" \in DOMAIN a
        THEN Append(r1, Rec("analysis_error", a["error"], 0))
        ELSE r1

\* A non-strict missing-value comparison (>= 5 instead of > 5).
Mut_numeric_triggers(a) ==
    LET missing_pct     == Get(a, "missing_percentage", 0)
        zscore_outliers == Get(a, "zscore_outliers", 0)
        iqr_outliers    == Get(a, "iqr_outliers", 0)
        skewness        == Get(a, "skewness", 0)
        cv              == Get(a, "coefficient_of_variation", 0)
        r1 == AppendIf(<<>>, missing_pct >= Hundredths(5), Rec("missing", "", missing_pct))
        r2 == AppendIf(r1, zscore_outliers > 0, Rec("zscore", "", zscore_outliers))
        r3 == AppendIf(r2, iqr_outliers > 0, Rec("iqr", "", iqr_outliers))
        r4 == AppendIf(r3, Abs(skewness) > Hundredths(2), Rec("skewness", "", skewness))
        r5 == AppendIf(r4, ~Get(a, "is_normal", TRUE), Rec("not_normal", "", 0))
        r6 == AppendIf(r5, cv > Hundredths(1), Rec("variability", "", cv))
    IN  r6

\* recommendations.py:24-64, the rules after the error check
numeric_triggers(a) ==
    LET missing_pct     == Get(a, "missing_percentage", 0)
        zscore_outliers == Get(a, "zscore_outliers", 0)
        iqr_outliers    == Get(a, "iqr_outliers", 0)
        skewness        == Get(a, "skewness", 0)
        cv              == Get(a, "coefficient_of_variation", 0)
        r1 == AppendIf(<<>>, missing_pct > Hundredths(5), Rec("missing", "", missing_pct))
        r2 == AppendIf(r1, zscore_outliers > 0, Rec("zscore", "", zscore_outliers))
        r3 == AppendIf(r2, iqr_outliers > 0, Rec("iqr", "", iqr_outliers))
        r4 == AppendIf(r3, Abs(skewness) > Hundredths(2), Rec("skewness", "", skewness))
        r5 == AppendIf(r4, ~Get(a, "is_normal", TRUE), Rec("not_normal", "", 0))
        r6 == AppendIf(r5, cv > Hundredths(1), Rec("variability", "", cv))
    IN  r6

\* recommendations.py:13-64
get_numeric_recommendations(a) ==
    IF "error" \in DOMAIN a
    THEN <<Rec("analysis_error", a["error"], 0)>>
    ELSE numeric_triggers(a)

\* max(value_counts.values()) / min(value_counts.values()) > 10
Imbalanced(value_counts) ==
    LET counts == {value_counts[v] : v \in DOMAIN value_counts}
        max_count == CHOOSE c \in counts : \A d \in counts : d <= c
        min_count == CHOOSE c \in counts : \A d \in counts : c <= d
    IN  max_count > 10 * min_count

\* recommendations.py:66-112
get_categorical_recommendations(a) ==
    IF "error" \in DOMAIN a
    THEN <<Rec("analysis_error", a["error"], 0)>>
    ELSE
    LET missing_pct     == Get(a, "missing_percentage", 0)
        rare_categories == Get(a, "rare_categories", {})
        value_counts    == Get(a, "value_counts", EmptyDict)
        r1 == AppendIf(<<>>, missing_pct > Hundredths(5), Rec("missing", "", missing_pct))
        r2 == AppendIf(r1, Get(a, "is_high_cardinality", FALSE),
                       Rec("high_cardinality", "", Get(a, "unique_count", 0)))
        r3 == AppendIf(r2, rare_categories # {},
                       Rec("rare_categories", "", Cardinality(rare_categories)))
        r4 == AppendIf(r3, Cardinality(DOMAIN value_counts) > 1 /\ Imbalanced(value_counts),
                       Rec("imbalanced", "", 0))
    IN  r4

\* recommendations.py:114-145
get_datetime_recommendations(a) ==
    IF "error" \in DOMAIN a
    THEN <<Rec("analysis_error", a["error"], 0)>>
    ELSE
    LET missing_pct == Get(a, "missing_percentage", 0)
        year_range  == Get(a, "year_range", 0)
        r1 == AppendIf(<<>>, missing_pct > Hundredths(5), Rec("missing", "", missing_pct))
        r2 == AppendIf(r1, year_range > 50, Rec("wide_date_range", "", 0))
    IN  Append(r2, Rec("extract_features", "", 0))

----------------------------------------------------------------------------
(* Columns.  A pandas Series is a record [dtype, nulls, cells]: its dtype,  *)
(* the number of null entries and, for each value in its str() rendering,  *)
(* the number of rows holding it.  Which dtype can hold which rendering is *)
(* Renderings.                                                             *)

Values == {"a@b.co", "http://x.y", "12345", "2020-01-15", "20200115", "abc",
           "-7", "1.5", "True"}

Dtypes == {"int64", "float64", "bool", "datetime64", "object", "category"}

Renderings(dtype) ==
    CASE dtype = "int64"      -> {"12345", "20200115", "-7"}
      [] dtype = "float64"    -> {"1.5"}
      [] dtype = "bool"       -> {"True"}
      [] dtype = "datetime64" -> {"2020-01-15"}
      [] OTHER                -> {"a@b.co", "http://x.y", "12345", "2020-01-15",
                                  "20200115", "abc"}

\* int64 and bool columns hold no null
Nullable(dtype) == dtype \notin {"int64", "bool"}

RECURSIVE SumOver(_, _)
SumOver(f, S) ==
    IF S = {} THEN 0
    ELSE LET x == CHOOSE y \in S : TRUE IN f[x] + SumOver(f, S \ {x})

\* len(series.dropna())
NonNull(s) == SumOver(s.cells, Values)

\* len(series)
Length(s) == s.nulls + NonNull(s)

\* the bags over the values vs with at most n elements
RECURSIVE CellBags(_, _)
CellBags(vs, n) ==
    IF vs = {} THEN {[v \in Values |-> 0]}
    ELSE LET x == CHOOSE y \in vs : TRUE
         IN  UNION {{[b EXCEPT ![x] = k] : b \in CellBags(vs \ {x}, n - k)} : k \in 0..n}

\* the series of dtype d with at most n rows
SeriesOf(d, n) ==
    {[dtype |-> d, nulls |-> k, cells |-> b] :
        k \in (IF Nullable(d) THEN 0..n ELSE {0}), b \in CellBags(Renderings(d), n)}

Min(a, b) == IF a <= b THEN a ELSE b

----------------------------------------------------------------------------
(* DataTypeInference *)

\* type_inference.py:13-39, the names in declaration order
PATTERNS == <<"email", "phone", "url", "ip_address", "postal_code", "credit_card",
              "date_iso", "datetime_iso", "currency", "datetime_global">>

PatternNames == {PATTERNS[i] : i \in 1..Len(PATTERNS)}

\* re.match of each pattern on the renderings of Values
Matching(v) ==
    CASE v = "a@b.co"     -> {"email"}
      [] v = "http://x.y" -> {"url"}
      [] v = "12345"      -> {"postal_code", "currency"}
      [] v = "2020-01-15" -> {"date_iso", "datetime_global"}
      [] v = "20200115"   -> {"currency"}
      [] v = "1.5"        -> {"currency"}
      [] OTHER            -> {}

\* pd.api.types.infer_dtype(series, skipna=True); an object column holds
\* strings unless its field py says it holds Python ints
infer_dtype(s) ==
    CASE s.dtype = "int64"      -> "integer"
      [] s.dtype = "float64"    -> "floating"
      [] s.dtype = "bool"       -> "boolean"
      [] s.dtype = "datetime64" -> "datetime64"
      [] s.dtype = "category"   -> "categorical"
      [] OTHER                  -> IF NonNull(s) = 0 THEN "empty"
                                   ELSE IF Get(s, "py", "str") = "int" THEN "integer"
                                   ELSE "string"

SampleLimit == 1000

\* sample.str.match(pattern).sum() over the sample (all non-null rows: the
\* columns modelled are shorter than the sample limit)
MatchCount(s, p) == SumOver(s.cells, {v \in Values : p \in Matching(v)})

\* a score matches / len(sample) as the fraction [num, den]; 0 for an empty sample
Score(matches, n) == IF n > 0 THEN [num |-> matches, den |-> n] ELSE [num |-> 0, den |-> 1]

FracLess(a, b) == a.num * b.den < b.num * a.den

\* confidence > 0.8
AboveConfidence(c) == 10 * c.num > 8 * c.den

\* The last of the maximal patterns wins.
Mut_best_pattern(scores) ==
    LET i == CHOOSE k \in 1..Len(PATTERNS) :
                 /\ \A j \in 1..Len(PATTERNS) : ~FracLess(scores[PATTERNS[k]], scores[PATTERNS[j]])
                 /\ \A j \in (k+1)..Len(PATTERNS) : FracLess(scores[PATTERNS[j]], scores[PATTERNS[k]])
    IN  PATTERNS[i]

\* max(pattern_scores, key=pattern_scores.get): the first key, in insertion
\* order, that no key exceeds
best_pattern(scores) ==
    LET i == CHOOSE k \in 1..Len(PATTERNS) :
                 /\ \A j \in 1..Len(PATTERNS) : ~FracLess(scores[PATTERNS[k]], scores[PATTERNS[j]])
                 /\ \A j \in 1..(k-1) : FracLess(scores[PATTERNS[j]], scores[PATTERNS[k]])
    IN  PATTERNS[i]

\* The threshold taken as >= 0.8.
Mut_determine_suggested_type(pandas_type, best, confidence) ==
    IF 10 * confidence.num >= 8 * confidence.den THEN best
    ELSE IF pandas_type \in {"integer", "floating"} THEN "numeric"
    ELSE IF pandas_type = "datetime64" THEN "datetime"
    ELSE IF pandas_type = "boolean" THEN "boolean"
    ELSE IF pandas_type = "categorical" THEN "categorical"
    ELSE "text"

\* type_inference.py:72-86
determine_suggested_type(pandas_type, best, confidence) ==
    IF AboveConfidence(confidence) THEN best
    ELSE IF pandas_type \in {"integer", "floating"} THEN "numeric"
    ELSE IF pandas_type = "datetime64" THEN "datetime"
    ELSE IF pandas_type = "boolean" THEN "boolean"
    ELSE IF pandas_type = "categorical" THEN "categorical"
    ELSE "text"

\* type_inference.py:41-70
infer_column_type(s) ==
    LET sample_size    == Min(SampleLimit, NonNull(s))
        pandas_type    == infer_dtype(s)
        pattern_scores == [p \in PatternNames |-> Score(MatchCount(s, p), sample_size)]
                          @@ EmptyDict
        best           == best_pattern(pattern_scores)
        best_score     == pattern_scores[best]
    IN  [pandas_inferred    |-> pandas_type,
         best_pattern       |-> best,
         pattern_confidence |-> best_score,
         suggested_type     |-> determine_suggested_type(pandas_type, best, best_score),
         pattern_scores     |-> pattern_scores]

----------------------------------------------------------------------------
(* DataTypeConverter *)

is_float_dtype(dtype) == dtype = "float64"

is_datetime64_any_dtype(dtype) == dtype = "datetime64"

is_numeric_dtype(dtype) == dtype \in {"int64", "float64", "bool"}

\* the renderings pd.to_numeric converts
NumericParse(v) == v \in {"12345", "20200115", "-7", "1.5"}

\* the renderings pd.to_datetime converts ("12345" and "-7" are taken as
\* not parseable as dates)
DateParse(v) == v \in {"2020-01-15", "20200115"}

\* the values present in a series
Support(s) == {v \in Values : s.cells[v] > 0}

\* pd.to_numeric(series, errors='raise') succeeds: nulls pass, every other
\* value must convert
to_numeric_ok(s) ==
    \/ is_numeric_dtype(s.dtype)
    \/ is_datetime64_any_dtype(s.dtype)
    \/ s.dtype = "object" /\ \A v \in Support(s) : NumericParse(v)

\* converted_series.notna().sum() after pd.to_numeric(errors='coerce')
numeric_valid_count(s) ==
    SumOver([v \in Values |-> IF NumericParse(v) THEN s.cells[v] ELSE 0], Values)

\* pd.to_datetime(series, errors='raise') succeeds under one of the formats
\* tried: every non-null value is a date, all in the same format (the format
\* is inferred from the first value, or is one fixed format of the list)
to_datetime_ok(s) ==
    \/ s.dtype \in {"int64", "float64", "datetime64"}
    \/ /\ s.dtype = "object"
       /\ \A v \in Support(s) : DateParse(v)
       /\ Cardinality(Support(s)) <= 1

\* converted_series.notna().sum() after pd.to_datetime(errors='coerce')
datetime_valid_count(s) ==
    SumOver([v \in Values |-> IF DateParse(v) THEN s.cells[v] ELSE 0], Values)

\* the entry recorded for a partially convertible column; success_rate is
\* valid_count / total_count
PartialInfo(valid_count, total_count) ==
    [valid_count |-> valid_count, total_count |-> total_count]

\* The float bar taken as "more than 90%".
Mut_accept_partial_float(valid_count, total_count) ==
    /\ total_count > 0
    /\ 10 * valid_count > 9 * total_count
    /\ valid_count > 0

\* data_conversion.py:95-98: success_rate >= 0.9 and valid_count > 0, with
\* success_rate = valid_count / total_count if total_count > 0 else 0
accept_partial_float(valid_count, total_count) ==
    /\ total_count > 0
    /\ 10 * valid_count >= 9 * total_count
    /\ valid_count > 0

\* data_conversion.py:163-167: success_rate >= 0.8 and valid_count > 0
accept_partial_datetime(valid_count, total_count) ==
    /\ total_count > 0
    /\ 10 * valid_count >= 8 * total_count
    /\ valid_count > 0

\* The datetime columns not skipped by the float path.
Mut_float_skips(dtype) == FALSE

\* data_conversion.py:76-78
float_skips(dtype) == is_datetime64_any_dtype(dtype)

\* The numeric columns not skipped by the datetime path.
Mut_datetime_skips(dtype) == FALSE

\* data_conversion.py:121-123
datetime_skips(dtype) == is_numeric_dtype(dtype)

\* data_conversion.py:66-109; returns the report and the working copy
process_float_conversion(d, conv, column, report) ==
    LET s == d[column]
        valid_count == numeric_valid_count(s)
        total_count == Length(s)
    IN
    IF is_float_dtype(s.dtype) THEN
        [report |-> [report EXCEPT !.already_float_columns = Append(@, column)],
         converted_df |-> conv]
    ELSE IF float_skips(s.dtype) THEN
        [report |-> report, converted_df |-> conv]
    ELSE IF to_numeric_ok(s) THEN
        [report |-> [report EXCEPT !.convertible_float_columns = Append(@, column)],
         converted_df |-> [conv EXCEPT ![column] =
                              IF is_numeric_dtype(s.dtype) THEN s.dtype
                              ELSE IF s.nulls > 0 THEN "float64" ELSE "int64"]]
    ELSE IF accept_partial_float(valid_count, total_count) THEN
        [report |-> [report EXCEPT !.partially_convertible_float_columns =
                        (column :> PartialInfo(valid_count, total_count)) @@ @],
         converted_df |-> [conv EXCEPT ![column] = "float64"]]
    ELSE
        [report |-> [report EXCEPT !.unconvertible_float_columns = Append(@, column)],
         converted_df |-> conv]

\* data_conversion.py:111-178
process_datetime_conversion(d, conv, column, report) ==
    LET s == d[column]
        valid_count == datetime_valid_count(s)
        total_count == Length(s)
    IN
    IF is_datetime64_any_dtype(s.dtype) THEN
        [report |-> [report EXCEPT !.already_datetime_columns = Append(@, column)],
         converted_df |-> conv]
    ELSE IF datetime_skips(conv[column]) THEN
        [report |-> report, converted_df |-> conv]
    ELSE IF to_datetime_ok(s) THEN
        [report |-> [report EXCEPT !.convertible_datetime_columns = Append(@, column)],
         converted_df |-> [conv EXCEPT ![column] = "datetime64"]]
    ELSE IF accept_partial_datetime(valid_count, total_count) THEN
        [report |-> [report EXCEPT !.partially_convertible_datetime_columns =
                        (column :> PartialInfo(valid_count, total_count)) @@ @],
         converted_df |-> [conv EXCEPT ![column] = "datetime64"]]
    ELSE
        [report |-> [report EXCEPT !.unconvertible_datetime_columns = Append(@, column)],
         converted_df |-> conv]

\* data_conversion.py:28-44
EmptyReport ==
    [convertible_float_columns              |-> <<>>,
     partially_convertible_float_columns    |-> EmptyDict,
     unconvertible_float_columns            |-> <<>>,
     already_float_columns                  |-> <<>>,
     convertible_datetime_columns           |-> <<>>,
     partially_convertible_datetime_columns |-> EmptyDict,
     unconvertible_datetime_columns         |-> <<>>,
     already_datetime_columns               |-> <<>>,
     total_columns_processed                |-> 0]

\* column in list
InList(x, list) == \E i \in 1..Len(list) : list[i] = x

\* list.count(column)
Count(x, list) == Cardinality({i \in 1..Len(list) : list[i] = x})

----------------------------------------------------------------------------
(* StatisticalAnalyzer, as far as the orchestrator depends on it: which     *)
(* path returns what kind of mapping, and when a path raises.  A call's    *)
(* outcome is [exc, result]: the exception raised ("" when none) and the   *)
(* mapping returned.  Of the numeric statistics only the counts are        *)
(* carried here.                                                           *)

Ok(result) == [exc |-> "", result |-> result]

Raise(exc) == [exc |-> exc, result |-> EmptyDict]

\* the float nan, as a percentage: no comparison "nan > x" holds
NaN == 0 - 1

\* (series.isnull().sum() / len(series)) * 100, a numpy division: nan for an
\* empty series, never an exception
missing_percentage(s) ==
    IF Length(s) = 0 THEN NaN ELSE (s.nulls * Hundredths(100)) \div Length(s)

\* statistical.py:14-55. max() - min() of a bool column is a numpy boolean
\* subtraction, which raises TypeError.
analyze_numeric(s) ==
    IF NonNull(s) = 0 THEN Ok(("error" :> "No valid numeric values found"))
    ELSE IF s.dtype = "bool"
    THEN Raise("TypeError: numpy boolean subtract is not supported")
    ELSE Ok([count |-> NonNull(s),
             missing_count |-> s.nulls,
             missing_percentage |-> missing_percentage(s)])

HighCardinality == 50

\* The threshold taken as "at most 1%".
Mut_identify_rare_categories(s) == {v \in Support(s) : 100 * s.cells[v] <= NonNull(s)}

\* statistical.py:169-176: value_counts(normalize=True) divides by the number
\* of non-null values
identify_rare_categories(s) == {v \in Support(s) : 100 * s.cells[v] < NonNull(s)}

\* statistical.py:57-73. series.nunique() / len(series) divides two Python
\* ints: ZeroDivisionError for an empty series.
analyze_categorical(s) ==
    IF Length(s) = 0 THEN Raise("ZeroDivisionError: division by zero")
    ELSE Ok([count |-> Length(s),
             missing_count |-> s.nulls,
             missing_percentage |-> missing_percentage(s),
             unique_count |-> Cardinality(Support(s)),
             value_counts |-> [v \in Support(s) |-> s.cells[v]],
             rare_categories |-> identify_rare_categories(s),
             is_high_cardinality |-> Cardinality(Support(s)) > HighCardinality])

\* statistical.py:75-104; every value of the columns modelled is in 2020
analyze_datetime(s) ==
    LET valid == IF s.dtype = "datetime64" THEN NonNull(s) ELSE datetime_valid_count(s)
    IN  IF valid = 0 THEN Ok(("error" :> "No valid datetime values found"))
        ELSE Ok([count |-> valid,
                 missing_count |-> Length(s) - valid,
                 missing_percentage |-> ((Length(s) - valid) * Hundredths(100)) \div Length(s),
                 year_range |-> 0])

----------------------------------------------------------------------------
(* AutomatedDataProfiler._analyze_column *)

\* The fallback with a recommendation that does not quote the exception.
Mut_fallback_analysis(s, exc) ==
    [analysis |-> [type |-> "error",
                   count |-> Length(s),
                   missing_count |-> s.nulls,
                   missing_percentage |-> missing_percentage(s),
                   error |-> exc],
     recommendations |-> <<Rec("analysis_failed", "", 0)>>]

\* profiler.py:190-199
fallback_analysis(s, exc) ==
    [analysis |-> [type |-> "error",
                   count |-> Length(s),
                   missing_count |-> s.nulls,
                   missing_percentage |-> missing_percentage(s),
                   error |-> exc],
     recommendations |-> <<Rec("analysis_failed", exc, 0)>>]

\* The dispatch with the categorical test placed before the numeric one.
Mut_analysis_path(suggested_type, dtype) ==
    IF suggested_type \in {"categorical", "text"} \/ dtype = "object" THEN "categorical"
    ELSE IF suggested_type = "numeric" \/ is_numeric_dtype(dtype) THEN "numeric"
    ELSE IF suggested_type = "datetime" \/ is_datetime64_any_dtype(dtype) THEN "datetime"
    ELSE "other"

\* profiler.py:174, 178, 182, 186: the branch taken
analysis_path(suggested_type, dtype) ==
    IF suggested_type = "numeric" \/ is_numeric_dtype(dtype) THEN "numeric"
    ELSE IF suggested_type \in {"categorical", "text"} \/ dtype = "object" THEN "categorical"
    ELSE IF suggested_type = "datetime" \/ is_datetime64_any_dtype(dtype) THEN "datetime"
    ELSE "other"

\* The exception of the statistics left to propagate.
Mut_guarded(s, path, outcome) ==
    [analysis |-> outcome.result @@ ("type" :> path),
     recommendations |-> <<>>,
     exc |-> outcome.exc]

\* profiler.py:173, 190-199: the try/except around the dispatch
guarded(s, path, outcome) ==
    IF outcome.exc # ""
    THEN fallback_analysis(s, outcome.exc) @@ ("exc" :> "")
    ELSE [analysis |-> ("type" :> path) @@ outcome.result,
          recommendations |->
              CASE path = "numeric"     -> get_numeric_recommendations(outcome.result)
                [] path = "categorical" -> get_categorical_recommendations(outcome.result)
                [] path = "datetime"    -> get_datetime_recommendations(outcome.result)
                [] OTHER                -> <<>>,
          exc |-> ""]

\* profiler.py:175, 179, 183, 187: the statistics of the branch taken.
\* Whether those of analyze_numeric accept an object array depends on the
\* numpy and scipy installed: object_stats is either outcome.
column_statistics(s, path, object_stats) ==
    CASE path = "numeric" /\ s.dtype = "object" /\ ~object_stats
                              -> Raise("TypeError: unsupported operand")
      [] path = "numeric"  -> analyze_numeric(s)
      [] path = "datetime" -> analyze_datetime(s)
      [] OTHER             -> analyze_categorical(s)

\* profiler.py:166-205; exc is the exception leaving _analyze_column
analyze_column(s, object_stats) ==
    LET type_info_ == infer_column_type(s)
        path == analysis_path(type_info_.suggested_type, s.dtype)
        g == guarded(s, path, column_statistics(s, path, object_stats))
    IN  [exc |-> g.exc,
         result |-> ("type_inference" :> type_info_)
                    @@ ("recommendations" :> g.recommendations)
                    @@ g.analysis]

----------------------------------------------------------------------------
(* Datasets.  A DataFrame is a record [dtypes, py, rows]: the dtype of each *)
(* column, the Python type of the objects an object column holds, and the  *)
(* rows in order, a row giving each column its value (in its str()         *)
(* rendering) or NULL.                                                     *)

NULL == "<NA>"

\* df[column]
Column(d, column) ==
    [dtype |-> d.dtypes[column],
     py    |-> d.py[column],
     nulls |-> Cardinality({i \in 1..Len(d.rows) : d.rows[i][column] = NULL}),
     cells |-> [v \in Values |-> Cardinality({i \in 1..Len(d.rows) : d.rows[i][column] = v})]
               @@ EmptyDict]

\* df.duplicated().sum(): the rows equal to an earlier row
duplicate_count(d) ==
    Cardinality({i \in 1..Len(d.rows) : \E j \in 1..(i-1) : d.rows[j] = d.rows[i]})

----------------------------------------------------------------------------
(* DataCleaningRecommendations.get_general_recommendations and             *)
(* AutomatedDataProfiler._analyze_dataset_info                             *)

\* recommendations.py:147-181. facts gives len(df), the deep memory usage in
\* MB, df.duplicated().sum() and the step that raises ("" when none does).
\* The small-dataset branch builds its strings and appends nothing; the
\* except branch appends to the list as it stands.
get_general_recommendations(facts) ==
    LET error == Rec("general_error", facts.raises, 0)
        r1 == AppendIf(<<>>, ~(facts.n_rows < 100) /\ facts.n_rows > 1000000,
                       Rec("large_dataset", "", 0))
        r2 == AppendIf(r1, facts.memory_mb > 1000, Rec("high_memory", "", facts.memory_mb))
        r3 == AppendIf(r2, facts.duplicates > 0, Rec("duplicates", "", facts.duplicates))
    IN  CASE facts.raises = "len"          -> <<error>>
          [] facts.raises = "memory_usage" -> Append(r1, error)
          [] facts.raises = "duplicated"   -> Append(r2, error)
          [] OTHER                         -> r3

\* profiler.py:148-164; the memory of the datasets modelled is below 1 MB
analyze_dataset_info(d) ==
    [shape |-> <<Len(d.rows), Cardinality(DOMAIN d.dtypes)>>,
     memory_usage_mb |-> 0,
     total_missing |-> SumOver([c \in DOMAIN d.dtypes |-> Column(d, c).nulls], DOMAIN d.dtypes),
     duplicate_count |-> duplicate_count(d)]

----------------------------------------------------------------------------
(* EnhancedAnalyzer, as far as profile_dataset depends on it: the keys of   *)
(* each result and the exceptions that leave each call                     *)

\* enhanced.py:16-58: an entry for each target that exists and is of a
\* number dtype (bool is not one for select_dtypes)
analyze_target_correlation(d, target_cols) ==
    LET numeric == {c \in DOMAIN d.dtypes : d.dtypes[c] \in {"int64", "float64"}}
        found == {target_cols[i] : i \in 1..Len(target_cols)} \cap numeric
    IN  Ok([t \in found |-> [correlations |-> numeric \ {t}]])

\* enhanced.py:75-113 for one target present in the dataset.
\* value_counts.iloc[0] of a target without any non-null value raises
\* IndexError.
target_distribution(s) ==
    IF is_numeric_dtype(s.dtype)
    THEN LET o == analyze_numeric(s)
         IN  IF o.exc # "" THEN o ELSE Ok(("type" :> "numeric") @@ o.result)
    ELSE LET o == analyze_categorical(s)
             counts == {s.cells[v] : v \in Support(s)}
             largest == CHOOSE c \in counts : \A e \in counts : e <= c
         IN  IF o.exc # "" THEN o
             ELSE IF NonNull(s) = 0
             THEN Raise("IndexError: single positional indexer is out-of-bounds")
             ELSE Ok(("type" :> "categorical")
                     @@ ("class_balance" :>
                           [largest_class_percentage |->
                                (largest * Hundredths(100)) \div Length(s),
                            is_balanced |-> largest * 100 < 70 * Length(s)])
                     @@ o.result)

\* the number of rows of the dataset that hold v in the column
Occurrences(d, column, v) ==
    Cardinality({i \in 1..Len(d.rows) : d.rows[i][column] = v})

\* head(10) of the value counts
DuplicateExamples == 10

\* enhanced.py:185-193: series[series.duplicated(keep=False)].value_counts()
\* .head(10); value_counts leaves the nulls out
duplicate_counts(d, column) ==
    LET values == {d.rows[i][column] : i \in 1..Len(d.rows)} \ {NULL}
        repeated == {v \in values : Occurrences(d, column, v) > 1}
        kept == IF Cardinality(repeated) <= DuplicateExamples THEN repeated
                ELSE CHOOSE T \in SUBSET repeated :
                         /\ Cardinality(T) = DuplicateExamples
                         /\ \A t \in T, u \in repeated \ T :
                                Occurrences(d, column, t) >= Occurrences(d, column, u)
    IN  [v \in kept |-> Occurrences(d, column, v)]

\* enhanced.py:186-189: series[series.duplicated(keep=False)].unique()[:10],
\* from the i-th row on; duplicated() takes the nulls as equal to each other
RECURSIVE duplicate_values(_, _, _, _)
duplicate_values(d, column, i, acc) ==
    IF i > Len(d.rows) \/ Len(acc) = DuplicateExamples THEN acc
    ELSE LET v == d.rows[i][column]
         IN  IF Occurrences(d, column, v) > 1 /\ \A j \in 1..Len(acc) : acc[j] # v
             THEN duplicate_values(d, column, i + 1, Append(acc, v))
             ELSE duplicate_values(d, column, i + 1, acc)

\* enhanced.py:179-208 for one ID column present in the dataset.
\* series.nunique() leaves the nulls out; unique_count / total_count divides
\* two Python ints.
id_uniqueness(d, column) ==
    LET total_count == Len(d.rows)
        unique_count == Cardinality({d.rows[i][column] : i \in 1..Len(d.rows)} \ {NULL})
    IN  IF total_count = 0 THEN Raise("ZeroDivisionError: division by zero")
        ELSE Ok([total_count |-> total_count,
                 unique_count |-> unique_count,
                 duplicate_count |-> total_count - unique_count,
                 uniqueness_percentage |-> [num |-> 100 * unique_count, den |-> total_count],
                 is_unique |-> total_count - unique_count = 0,
                 duplicate_values |-> duplicate_values(d, column, 1, <<>>),
                 duplicate_value_counts |-> duplicate_counts(d, column),
                 missing_count |-> Occurrences(d, column, NULL)])

\* enhanced.py:60-115, the loop from its i-th target on: a target missing
\* from the dataset is skipped, the first exception ends the loop
RECURSIVE target_distribution_loop(_, _, _, _)
target_distribution_loop(d, target_cols, i, acc) ==
    IF i > Len(target_cols) THEN Ok(acc)
    ELSE IF target_cols[i] \notin DOMAIN d.dtypes
    THEN target_distribution_loop(d, target_cols, i + 1, acc)
    ELSE LET o == target_distribution(Column(d, target_cols[i]))
         IN  IF o.exc # "" THEN o
             ELSE target_distribution_loop(d, target_cols, i + 1,
                                           (target_cols[i] :> o.result) @@ acc)

analyze_target_distribution(d, target_cols) ==
    target_distribution_loop(d, target_cols, 1, EmptyDict)

\* enhanced.py:166-210, the loop from its i-th ID column on: a column
\* missing from the dataset gets an error entry
RECURSIVE id_uniqueness_loop(_, _, _, _)
id_uniqueness_loop(d, id_cols, i, acc) ==
    IF i > Len(id_cols) THEN Ok(acc)
    ELSE IF id_cols[i] \notin DOMAIN d.dtypes
    THEN id_uniqueness_loop(d, id_cols, i + 1,
                            (id_cols[i] :> ("error" :> "Column not found")) @@ acc)
    ELSE LET o == id_uniqueness(d, id_cols[i])
         IN  IF o.exc # "" THEN o
             ELSE id_uniqueness_loop(d, id_cols, i + 1, (id_cols[i] :> o.result) @@ acc)

check_id_uniqueness(d, id_cols) ==
    id_uniqueness_loop(d, id_cols, 1, EmptyDict)

\* enhanced.py:117-164: with categorical_cols = None an entry for each object
\* or category column other than the target; with a list an entry for each
\* column of the list that the dataset has, the target not being removed
\* from it. The tables of an entry are not modelled.
analyze_categorical_by_target(d, target_col, categorical_cols) ==
    IF target_col \notin DOMAIN d.dtypes THEN Ok(EmptyDict)
    ELSE LET cols == IF categorical_cols = <<"None">>
                     THEN {x \in DOMAIN d.dtypes : d.dtypes[x] \in {"object", "category"}}
                              \ {target_col}
                     ELSE {categorical_cols[i] : i \in 1..Len(categorical_cols)}
                              \cap DOMAIN d.dtypes
         IN  Ok([c \in cols |-> "crosstab"])

\* x.astype(str) of a cell
AsStr(v) == IF v = NULL THEN "nan" ELSE v

\* enhanced.py:226, the composite key of a row: "||".join(x.astype(str))
\* over the cells of the ID columns from the i-th on
RECURSIVE composite_key(_, _, _)
composite_key(row, id_cols, i) ==
    IF i > Len(id_cols) THEN ""
    ELSE IF i = Len(id_cols) THEN AsStr(row[id_cols[i]])
    ELSE AsStr(row[id_cols[i]]) \o "||" \o composite_key(row, id_cols, i + 1)

\* enhanced.py:212-254. With no row, unique_count / total_count divides by
\* zero.
check_composite_id_uniqueness(d, id_cols) ==
    IF Len(id_cols) < 2 THEN Ok(("error" :> "Composite ID requires at least 2 columns"))
    ELSE IF \E i \in 1..Len(id_cols) : id_cols[i] \notin DOMAIN d.dtypes
    THEN Ok(("error" :> "Columns not found"))
    ELSE IF Len(d.rows) = 0 THEN Raise("ZeroDivisionError: division by zero")
    ELSE LET keys == {composite_key(d.rows[i], id_cols, 1) : i \in 1..Len(d.rows)}
         IN  Ok([composite_columns |-> id_cols,
                 total_count |-> Len(d.rows),
                 unique_count |-> Cardinality(keys),
                 duplicate_count |-> Len(d.rows) - Cardinality(keys),
                 is_unique |-> Len(d.rows) - Cardinality(keys) = 0])

----------------------------------------------------------------------------
(* SpecRec: one call of a recommendation function on a statistics mapping *)

ErrorTexts == {"No valid numeric values found", "Datetime analysis failed: boom"}

NumericAnalyses ==
    {e @@ mp @@ zo @@ io @@ sk @@ nm @@ cv :
        e  \in Opt("error", {"No valid numeric values found"}),
        mp \in Opt("missing_percentage", {0, 500, 501}),
        zo \in Opt("zscore_outliers", {0, 1}),
        io \in Opt("iqr_outliers", {0, 2}),
        sk \in Opt("skewness", {-201, -200, 200, 201}),
        nm \in Opt("is_normal", BOOLEAN),
        cv \in Opt("coefficient_of_variation", {-150, 100, 101})}

CategoricalAnalyses ==
    {e @@ mp @@ hc @@ uc @@ rc @@ vc :
        e  \in Opt("error", ErrorTexts),
        mp \in Opt("missing_percentage", {500, 501}),
        hc \in Opt("is_high_cardinality", BOOLEAN),
        uc \in Opt("unique_count", {51}),
        rc \in Opt("rare_categories", {{}, {"x"}}),
        vc \in Opt("value_counts", {EmptyDict, ("a" :> 5), ("a" :> 10) @@ ("b" :> 1),
                                      ("a" :> 11) @@ ("b" :> 1)})}

DatetimeAnalyses ==
    {e @@ mp @@ yr :
        e  \in Opt("error", ErrorTexts),
        mp \in Opt("missing_percentage", {0, 500, 501}),
        yr \in Opt("year_range", {0, 50, 51})}

RecInit ==
    /\ pc = "rec_call"
    /\ fn \in {"numeric", "categorical", "datetime"}
    /\ analysis \in CASE fn = "numeric"     -> NumericAnalyses
                    [] fn = "categorical" -> CategoricalAnalyses
                    [] fn = "datetime"    -> DatetimeAnalyses
    /\ recommendations = <<>>
    /\ InferIdle /\ ConvIdle /\ ProfIdle

CallNumeric ==
    /\ pc = "rec_call" /\ fn = "numeric"
    /\ recommendations' = get_numeric_recommendations(analysis)
    /\ pc' = "rec_done"
    /\ UNCHANGED <<fn, analysis, inferVars, convVars, profVars>>

CallCategorical ==
    /\ pc = "rec_call" /\ fn = "categorical"
    /\ recommendations' = get_categorical_recommendations(analysis)
    /\ pc' = "rec_done"
    /\ UNCHANGED <<fn, analysis, inferVars, convVars, profVars>>

CallDatetime ==
    /\ pc = "rec_call" /\ fn = "datetime"
    /\ recommendations' = get_datetime_recommendations(analysis)
    /\ pc' = "rec_done"
    /\ UNCHANGED <<fn, analysis, inferVars, convVars, profVars>>

RecNext == CallNumeric \/ CallCategorical \/ CallDatetime

SpecRec == RecInit /\ [][RecNext]_vars

----------------------------------------------------------------------------
(* SpecInfer: one call of infer_column_type on a column *)

MaxSample == 5

InferInit ==
    /\ pc = "infer_call"
    /\ series \in UNION {SeriesOf(d, MaxSample) : d \in Dtypes}
    /\ type_info = Idle
    /\ RecIdle /\ ConvIdle /\ ProfIdle

InferColumnType ==
    /\ pc = "infer_call"
    /\ type_info' = infer_column_type(series)
    /\ pc' = "infer_done"
    /\ UNCHANGED <<series, recVars, convVars, profVars>>

InferNext == InferColumnType

SpecInfer == InferInit /\ [][InferNext]_vars

----------------------------------------------------------------------------
(* Claims about type inference *)

BaselineTypes == {"numeric", "datetime", "boolean", "categorical", "text"}

\* the resolution by the baseline tag alone
BaselineResolution(tag) ==
    CASE tag \in {"integer", "floating"} -> "numeric"
      [] tag = "datetime64"               -> "datetime"
      [] tag = "boolean"                  -> "boolean"
      [] tag = "categorical"              -> "categorical"
      [] OTHER                            -> "text"

\* C6: the suggested type is the best pattern's name when its score is
\* strictly above 0.8 (exactly 0.8 is not), and otherwise follows the
\* baseline tag: integer/floating numeric, datetime64 datetime, boolean
\* boolean, categorical categorical, anything else text; it is always one of
\* the five tags or one of the ten pattern names.
C6_SuggestedTypePriority ==
    pc = "infer_done" =>
        LET c == type_info.pattern_confidence IN
        /\ (5 * c.num > 4 * c.den) => type_info.suggested_type = type_info.best_pattern
        /\ (5 * c.num <= 4 * c.den) =>
               type_info.suggested_type = BaselineResolution(type_info.pandas_inferred)
        /\ type_info.suggested_type \in BaselineTypes \cup PatternNames

\* a score of exactly 0.8 (4 of 5 values match) falls through to the baseline
C6_Witness ==
    /\ pc = "infer_done"
    /\ type_info.pattern_confidence = [num |-> 4, den |-> 5]
    /\ type_info.best_pattern = "email"
    /\ type_info.suggested_type = "text"

\* C7: the best pattern is the first one, in declaration order, among those
\* with the maximum score, and pattern_confidence is that maximum; a column
\* with no non-null value scores 0 on all ten patterns and its suggested type
\* is decided by the baseline tag alone.
C7_BestPatternFirstMax ==
    pc = "infer_done" =>
        LET sc   == type_info.pattern_scores
            best == type_info.best_pattern
            idx(p) == CHOOSE i \in 1..Len(PATTERNS) : PATTERNS[i] = p
        IN
        /\ Len(PATTERNS) = 10
        /\ best \in PatternNames
        /\ type_info.pattern_confidence = sc[best]
        /\ \A p \in PatternNames : sc[p].num * sc[best].den <= sc[best].num * sc[p].den
        /\ \A p \in PatternNames :
               (sc[p].num * sc[best].den = sc[best].num * sc[p].den) => idx(best) <= idx(p)
        /\ NonNull(series) = 0 =>
               /\ \A p \in PatternNames : sc[p].num = 0
               /\ type_info.suggested_type = BaselineResolution(type_info.pandas_inferred)
               /\ type_info.suggested_type \notin PatternNames

\* a tie between two patterns at a positive score: date_iso and
\* datetime_global both match every value, the earlier one is chosen
C7_Witness ==
    /\ pc = "infer_done"
    /\ type_info.pattern_scores["date_iso"] = type_info.pattern_scores["datetime_global"]
    /\ type_info.pattern_scores["date_iso"].num > 0
    /\ type_info.best_pattern = "date_iso"
    /\ type_info.suggested_type = "date_iso"

----------------------------------------------------------------------------
(* SpecConvert: one call of find_and_convert_columns *)

\* data.columns
ColumnOrder == <<"c1", "c2">>

ConvRows == 10

\* the strings of the object columns converted
ConvValues == {"12345", "2020-01-15", "20200115", "abc"}

\* object columns of n rows: nulls and at most two distinct strings, never
\* two date formats in one column
ObjectSeries(n) ==
    {s \in {[dtype |-> "object", nulls |-> n - m, cells |-> b] :
                m \in 0..n, b \in {c \in CellBags(ConvValues, n) : Cardinality({v \in Values : c[v] > 0}) <= 2}} :
        /\ Length(s) = n
        /\ ~({"2020-01-15", "20200115"} \subseteq Support(s))}

\* one column of n rows of each native dtype
NativeSeries(n) ==
    {[dtype |-> "int64", nulls |-> 0, cells |-> [v \in Values |-> IF v = "-7" THEN n ELSE 0]],
     [dtype |-> "bool", nulls |-> 0, cells |-> [v \in Values |-> IF v = "True" THEN n ELSE 0]],
     [dtype |-> "float64", nulls |-> n - (n \div 2),
      cells |-> [v \in Values |-> IF v = "1.5" THEN n \div 2 ELSE 0]],
     [dtype |-> "datetime64", nulls |-> n - (n \div 2),
      cells |-> [v \in Values |-> IF v = "2020-01-15" THEN n \div 2 ELSE 0]]}

\* object columns of 1000 rows around the two acceptance bars
ThresholdSeries ==
    {[dtype |-> "object", nulls |-> 0,
      cells |-> [v \in Values |-> IF v = good THEN 1000 - bad
                                  ELSE IF v = "abc" THEN bad ELSE 0]] :
        good \in {"12345", "2020-01-15"}, bad \in {100, 101, 200, 201}}

ConvDatasets ==
    UNION {[{"c1", "c2"} -> ObjectSeries(n) \cup NativeSeries(n)] : n \in {0, ConvRows}}
    \cup [{"c1", "c2"} -> ThresholdSeries]

ConvInit ==
    /\ pc = "conv_float"
    /\ data \in ConvDatasets
    /\ converted_df = [c \in DOMAIN data |-> data[c].dtype]
    /\ conversion_report = EmptyReport
    /\ col_i = 1
    /\ call_log = <<>>
    /\ RecIdle /\ InferIdle /\ ProfIdle

\* where the loop of find_and_convert_columns goes after column i
AfterColumn(i) == IF i < Len(ColumnOrder) THEN "conv_float" ELSE "conv_log"

\* data_conversion.py:47-53 and the test of line 56
FloatConversion ==
    /\ pc = "conv_float"
    /\ LET column == ColumnOrder[col_i]
           counted == [conversion_report EXCEPT !.total_columns_processed = @ + 1]
           r == process_float_conversion(data, converted_df, column, counted)
       IN  /\ conversion_report' = r.report
           /\ converted_df' = r.converted_df
           /\ call_log' = Append(call_log, [column |-> column, attempt |-> "float"])
           /\ IF ~InList(column, r.report.convertible_float_columns)
              THEN pc' = "conv_datetime" /\ col_i' = col_i
              ELSE pc' = AfterColumn(col_i) /\ col_i' = col_i + 1
    /\ UNCHANGED <<data, recVars, inferVars, profVars>>

\* data_conversion.py:57-59
DatetimeConversion ==
    /\ pc = "conv_datetime"
    /\ LET column == ColumnOrder[col_i]
           r == process_datetime_conversion(data, converted_df, column, conversion_report)
       IN  /\ conversion_report' = r.report
           /\ converted_df' = r.converted_df
           /\ call_log' = Append(call_log, [column |-> column, attempt |-> "datetime"])
    /\ pc' = AfterColumn(col_i)
    /\ col_i' = col_i + 1
    /\ UNCHANGED <<data, recVars, inferVars, profVars>>

\* data_conversion.py:61-64
LogAndReturn ==
    /\ pc = "conv_log"
    /\ pc' = "conv_done"
    /\ UNCHANGED <<convVars, recVars, inferVars, profVars>>

ConvNext == FloatConversion \/ DatetimeConversion \/ LogAndReturn

SpecConvert == ConvInit /\ [][ConvNext]_vars

----------------------------------------------------------------------------
(* Claims about the converter *)

Columns == {ColumnOrder[i] : i \in 1..Len(ColumnOrder)}

\* in how many of the four float categories, and how often, a column is listed
FloatListings(c) ==
    Count(c, conversion_report.convertible_float_columns)
    + (IF c \in DOMAIN conversion_report.partially_convertible_float_columns THEN 1 ELSE 0)
    + Count(c, conversion_report.unconvertible_float_columns)
    + Count(c, conversion_report.already_float_columns)

DatetimeListings(c) ==
    Count(c, conversion_report.convertible_datetime_columns)
    + (IF c \in DOMAIN conversion_report.partially_convertible_datetime_columns THEN 1 ELSE 0)
    + Count(c, conversion_report.unconvertible_datetime_columns)
    + Count(c, conversion_report.already_datetime_columns)

\* C3 as stated: after find_and_convert_columns every column is in exactly
\* one float category and in exactly one datetime category.
C3_PartitionComplete ==
    pc = "conv_done" =>
        \A c \in Columns : FloatListings(c) = 1 /\ DatetimeListings(c) = 1

\* C3 as amended: no column is listed twice for a target type; a column is in
\* exactly one float category unless it is datetime-typed, and then in none;
\* it is in exactly one datetime category if it is datetime-typed or was
\* found unconvertible to float, and in none otherwise.
C3_PartitionAmended ==
    pc = "conv_done" =>
        \A c \in Columns :
            /\ FloatListings(c) <= 1
            /\ DatetimeListings(c) <= 1
            /\ FloatListings(c) = 1 <=> data[c].dtype # "datetime64"
            /\ DatetimeListings(c) = 1 <=>
                  \/ data[c].dtype = "datetime64"
                  \/ InList(c, conversion_report.unconvertible_float_columns)

\* a datetime-typed column outside the float partition beside a float
\* convertible column outside the datetime partition
C3_Witness ==
    /\ pc = "conv_done"
    /\ data["c1"].dtype = "datetime64"
    /\ FloatListings("c1") = 0 /\ DatetimeListings("c1") = 1
    /\ InList("c2", conversion_report.convertible_float_columns)
    /\ DatetimeListings("c2") = 0

\* the rows of a column that convert: the rows holding a value of the set vs
Converting(s, vs) == SumOver([v \in Values |-> IF v \in vs THEN s.cells[v] ELSE 0], Values)

NumericStrings == {"12345", "20200115"}
DateStrings == {"2020-01-15", "20200115"}

C5_FloatFirstNeverBoth ==
    /\ \A i \in 1..Len(call_log) :
          call_log[i].attempt = "datetime" =>
              /\ i > 1
              /\ call_log[i-1] = [column |-> call_log[i].column, attempt |-> "float"]
              /\ ~InList(call_log[i].column, conversion_report.convertible_float_columns)
    /\ \A i \in 1..Len(call_log) :
          (call_log[i].attempt = "float" /\ (i < Len(call_log) \/ pc = "conv_done")) =>
              (InList(call_log[i].column, conversion_report.convertible_float_columns)
                 <=> ~(i < Len(call_log) /\ call_log[i+1].attempt = "datetime"))
    /\ \A c \in Columns :
          ~ /\ \/ InList(c, conversion_report.convertible_float_columns)
               \/ c \in DOMAIN conversion_report.partially_convertible_float_columns
            /\ \/ InList(c, conversion_report.convertible_datetime_columns)
               \/ c \in DOMAIN conversion_report.partially_convertible_datetime_columns

\* a column partially converted to float whose values would also pass the
\* datetime bar: the datetime attempt is made and leaves it alone
C5_Witness ==
    /\ pc = "conv_done"
    /\ "c1" \in DOMAIN conversion_report.partially_convertible_float_columns
    /\ Converting(data["c1"], DateStrings) * 10 >= Length(data["c1"]) * 8
    /\ Len(call_log) >= 2
    /\ call_log[2] = [column |-> "c1", attempt |-> "datetime"]
    /\ DatetimeListings("c1") = 0

----------------------------------------------------------------------------
(* Claims about the recommendation rules *)

\* C9: each of the three recommendation functions, given a mapping with an
\* 'error' key, returns exactly one recommendation, the analysis-error one
\* carrying that error text, whatever other keys the mapping holds.
C9_ErrorShortCircuit ==
    (pc = "rec_done" /\ "error" \in DOMAIN analysis) =>
        /\ Len(recommendations) = 1
        /\ recommendations[1].kind = "analysis_error"
        /\ recommendations[1].error = analysis["error"]

\* an error mapping that also holds a missing percentage above the trigger
C9_Witness ==
    /\ pc = "rec_done"
    /\ "error" \in DOMAIN analysis
    /\ "missing_percentage" \in DOMAIN analysis
    /\ analysis["missing_percentage"] = 501
    /\ Len(recommendations) = 1

NumericRuleOrder == <<"missing", "zscore", "iqr", "skewness", "not_normal", "variability">>

\* the trigger of a numeric rule, stated on the mapping; an absent key is no trigger
NumericTriggerHolds(a, kind) ==
    CASE kind = "missing"     -> "missing_percentage" \in DOMAIN a /\ a["missing_percentage"] > 500
      [] kind = "zscore"      -> "zscore_outliers" \in DOMAIN a /\ a["zscore_outliers"] > 0
      [] kind = "iqr"         -> "iqr_outliers" \in DOMAIN a /\ a["iqr_outliers"] > 0
      [] kind = "skewness"    -> "skewness" \in DOMAIN a
                                 /\ (a["skewness"] > 200 \/ a["skewness"] < -200)
      [] kind = "not_normal"  -> "is_normal" \in DOMAIN a /\ a["is_normal"] = FALSE
      [] kind = "variability" -> "coefficient_of_variation" \in DOMAIN a
                                 /\ a["coefficient_of_variation"] > 100

ExpectedNumericKinds(a) == SelectSeq(NumericRuleOrder, LAMBDA k : NumericTriggerHolds(a, k))

\* C10: for an error-free numeric mapping the result holds exactly one
\* recommendation per trigger that holds, none for one that does not, in the
\* fixed rule order; comparisons are strict (5.0 gives no missing-value
\* recommendation, 5.01 gives one) and an absent key never triggers.
C10_NumericTriggers ==
    (pc = "rec_done" /\ fn = "numeric" /\ "error" \notin DOMAIN analysis) =>
        [i \in 1..Len(recommendations) |-> recommendations[i].kind]
            = ExpectedNumericKinds(analysis)

\* missing_percentage = 5.01 with other rules firing too
C10_Witness ==
    /\ pc = "rec_done" /\ fn = "numeric"
    /\ "error" \notin DOMAIN analysis
    /\ "missing_percentage" \in DOMAIN analysis
    /\ analysis["missing_percentage"] = 501
    /\ Len(recommendations) >= 3
    /\ recommendations[1].kind = "missing"

----------------------------------------------------------------------------
(* SpecProfile: one call of AutomatedDataProfiler.profile_dataset on a     *)
(* DataFrame, up to the generation of the reports                          *)

ProfColumns == <<"a", "b">>

ProfRows == 2

\* the kinds of column of the datasets: dtype and Python type of the objects
ColumnKinds == {<<"int64", "int">>, <<"float64", "float">>, <<"bool", "bool">>,
                <<"datetime64", "Timestamp">>, <<"object", "str">>,
                <<"object", "int">>, <<"category", "str">>}

\* the cells a column of a kind may hold
ProfCells(kind) ==
    CASE kind[1] = "int64"      -> <<"-7", "12345">>
      [] kind[1] = "float64"    -> <<"1.5", NULL>>
      [] kind[1] = "bool"       -> <<"True">>
      [] kind[1] = "datetime64" -> <<"2020-01-15", NULL>>
      [] kind = <<"object", "int">> -> <<"-7", NULL>>
      [] OTHER                  -> <<"a@b.co", "abc", NULL>>

\* the r-th of the rows a dataset with columns of kinds ka and kb may hold
ProfRow(ka, kb, r) ==
    [c \in {"a", "b"} |->
        IF c = "a" THEN ProfCells(ka)[((r - 1) \div Len(ProfCells(kb))) + 1]
        ELSE ProfCells(kb)[((r - 1) % Len(ProfCells(kb))) + 1]]

\* The datasets of at most ProfRows rows. No analysis modelled depends on
\* the order of the rows: each dataset lists its rows in one order.
ProfDatasets ==
    UNION {
        {[dtypes |-> [c \in {"a", "b"} |-> IF c = "a" THEN k[1][1] ELSE k[2][1]],
          py     |-> [c \in {"a", "b"} |-> IF c = "a" THEN k[1][2] ELSE k[2][2]],
          rows   |-> [i \in 1..Len(x) |-> ProfRow(k[1], k[2], x[i])]] :
            x \in UNION {{y \in [1..n -> 1..(Len(ProfCells(k[1])) * Len(ProfCells(k[2])))] :
                              \A i \in 1..(n - 1) : y[i] <= y[i + 1]} : n \in 0..ProfRows}} :
        k \in ColumnKinds \X ColumnKinds}

\* config.target_col, as the list the analysers make of it, and
\* config.id_cols; <<>> is None, and "zz" names a column the datasets do
\* not have
ProfConfigs ==
    [target_col : {<<>>, <<"a">>, <<"zz">>}, id_cols : {<<>>}]
    \cup [target_col : {<<>>}, id_cols : {<<"b">>, <<"a", "b">>, <<"b", "zz">>}]
    \cup {[target_col |-> <<"a">>, id_cols |-> <<"a", "b">>]}

ProfInit ==
    /\ pc = "prof_start"
    /\ df \in ProfDatasets
    /\ config \in ProfConfigs
    /\ profiling_results = EmptyDict
    /\ prof_i = 1
    /\ raised = ""
    /\ RecIdle /\ InferIdle /\ ConvIdle

\* an exception leaves profile_dataset
Propagate(exc) ==
    /\ raised' = exc
    /\ pc' = "prof_raised"
    /\ UNCHANGED <<df, config, profiling_results, prof_i>>

\* profiler.py:47-51
BuildResults ==
    /\ pc = "prof_start"
    /\ profiling_results' =
           [dataset_info |-> analyze_dataset_info(df),
            columns |-> EmptyDict,
            general_recommendations |->
                get_general_recommendations(
                    [n_rows |-> Len(df.rows), memory_mb |-> 0,
                     duplicates |-> duplicate_count(df), raises |-> ""])]
    /\ pc' = "prof_target"
    /\ UNCHANGED <<df, config, prof_i, raised>>
    /\ UNCHANGED <<recVars, inferVars, convVars>>

\* Every target found in the dataset, the numeric ones included.
Mut_categorical_targets(d, target_cols) ==
    {target_cols[i] : i \in {j \in 1..Len(target_cols) :
        target_cols[j] \in DOMAIN d.dtypes}}

\* profiler.py:59-63: the targets that get a categorical_by_<target> entry
categorical_targets(d, target_cols) ==
    {target_cols[i] : i \in {j \in 1..Len(target_cols) :
        /\ target_cols[j] \in DOMAIN d.dtypes
        /\ ~is_numeric_dtype(d.dtypes[target_cols[j]])}}

\* profiler.py:54-63
TargetAnalysis ==
    /\ pc = "prof_target"
    /\ IF config.target_col = <<>>
       THEN /\ pc' = "prof_ids"
            /\ UNCHANGED <<df, config, profiling_results, prof_i, raised>>
       ELSE LET correlation  == analyze_target_correlation(df, config.target_col)
                distribution == analyze_target_distribution(df, config.target_col)
                by_target    == [k \in {"categorical_by_" \o t :
                                            t \in categorical_targets(df, config.target_col)}
                                   |-> analyze_categorical_by_target(
                                           df, CHOOSE t \in DOMAIN df.dtypes :
                                                   k = "categorical_by_" \o t,
                                           <<"None">>).result]
            IN  IF distribution.exc # ""
                THEN Propagate(distribution.exc)
                ELSE /\ profiling_results' =
                            by_target
                            @@ ("target_distribution" :> distribution.result)
                            @@ ("target_correlation" :> correlation.result)
                            @@ profiling_results
                     /\ pc' = "prof_ids"
                     /\ UNCHANGED <<df, config, prof_i, raised>>
    /\ UNCHANGED <<recVars, inferVars, convVars>>

\* profiler.py:65-71
IdAnalysis ==
    /\ pc = "prof_ids"
    /\ IF config.id_cols = <<>>
       THEN /\ pc' = "prof_columns"
            /\ UNCHANGED <<df, config, profiling_results, prof_i, raised>>
       ELSE LET uniqueness == check_id_uniqueness(df, config.id_cols)
                composite  == IF Len(config.id_cols) > 1
                              THEN ("composite_id_uniqueness" :>
                                        check_composite_id_uniqueness(df, config.id_cols).result)
                              ELSE EmptyDict
            IN  IF uniqueness.exc # ""
                THEN Propagate(uniqueness.exc)
                ELSE /\ profiling_results' =
                            composite
                            @@ ("id_uniqueness" :> uniqueness.result)
                            @@ profiling_results
                     /\ pc' = "prof_columns"
                     /\ UNCHANGED <<df, config, prof_i, raised>>
    /\ UNCHANGED <<recVars, inferVars, convVars>>

\* The loop taking the columns from the last to the first.
Mut_AnalyzeColumn ==
    /\ pc = "prof_columns"
    /\ prof_i <= Len(ProfColumns)
    /\ \E object_stats \in IF df.dtypes[ProfColumns[Len(ProfColumns) + 1 - prof_i]] = "object"
                           THEN BOOLEAN ELSE {TRUE} :
         LET column == ProfColumns[Len(ProfColumns) + 1 - prof_i]
             column_analysis == analyze_column(Column(df, column), object_stats)
         IN  IF column_analysis.exc # ""
             THEN Propagate(column_analysis.exc)
             ELSE /\ profiling_results' =
                        [profiling_results EXCEPT
                            !.columns = (column :> column_analysis.result) @@ @]
                  /\ prof_i' = prof_i + 1
                  /\ UNCHANGED <<pc, df, config, raised>>
    /\ UNCHANGED <<recVars, inferVars, convVars>>

\* profiler.py:75-78, one iteration of "for column in df.columns"
AnalyzeColumn ==
    /\ pc = "prof_columns"
    /\ prof_i <= Len(ProfColumns)
    /\ \E object_stats \in IF df.dtypes[ProfColumns[prof_i]] = "object" THEN BOOLEAN
                           ELSE {TRUE} :
         LET column == ProfColumns[prof_i]
             column_analysis == analyze_column(Column(df, column), object_stats)
         IN  IF column_analysis.exc # ""
             THEN Propagate(column_analysis.exc)
             ELSE /\ profiling_results' =
                        [profiling_results EXCEPT
                            !.columns = (column :> column_analysis.result) @@ @]
                  /\ prof_i' = prof_i + 1
                  /\ UNCHANGED <<pc, df, config, raised>>
    /\ UNCHANGED <<recVars, inferVars, convVars>>

\* profiler.py:80-89: the reports are written and the results returned
GenerateReports ==
    /\ pc = "prof_columns"
    /\ prof_i > Len(ProfColumns)
    /\ pc' = "prof_done"
    /\ UNCHANGED <<df, config, profiling_results, prof_i, raised>>
    /\ UNCHANGED <<recVars, inferVars, convVars>>

ProfNext == BuildResults \/ TargetAnalysis \/ IdAnalysis \/ AnalyzeColumn \/ GenerateReports

SpecProfile == ProfInit /\ [][ProfNext]_vars

----------------------------------------------------------------------------
(* Claims about profile_dataset and _analyze_column *)

ProfColumnSet == {ProfColumns[i] : i \in 1..Len(ProfColumns)}

\* the entries of profiling_results['columns'] written so far
Analysed == IF pc \in {"prof_columns", "prof_done"}
            THEN DOMAIN profiling_results.columns ELSE {}

\* C1: profile_dataset never raises, whatever the dataset and the
\* configuration, and the result it returns holds an analysis entry for
\* every column of the dataset.
C1_AlwaysCompletes ==
    /\ pc # "prof_raised"
    /\ pc = "prof_done" => \A c \in ProfColumnSet : c \in DOMAIN profiling_results.columns

\* the statistics of a column of the given suggested type raise, whatever
\* the libraries installed
StatisticsRaise(s, suggested_type) ==
    \A object_stats \in BOOLEAN :
        column_statistics(s, analysis_path(suggested_type, s.dtype), object_stats).exc # ""

\* the analysis of the targets or of the ID columns raises
EnhancedRaises ==
    \/ /\ config.target_col # <<>>
       /\ analyze_target_distribution(df, config.target_col).exc # ""
    \/ /\ config.id_cols # <<>>
       /\ check_id_uniqueness(df, config.id_cols).exc # ""

FallbackKeys == {"type", "count", "missing_count", "missing_percentage", "error",
                 "type_inference", "recommendations"}

NumericRule(suggested_type, dtype) ==
    suggested_type = "numeric" \/ dtype \in {"int64", "float64", "bool"}

CategoricalRule(suggested_type, dtype) ==
    suggested_type \in {"categorical", "text"} \/ dtype = "object"

DatetimeRule(suggested_type, dtype) ==
    suggested_type = "datetime" \/ dtype = "datetime64"

\* C8: the type tag of a column is numeric, categorical, datetime, other or
\* error; unless the analysis failed it is that of the first rule that
\* matches, in the order numeric (suggested type numeric or numeric dtype),
\* categorical (suggested type categorical or text, or object dtype),
\* datetime (suggested type datetime or datetime dtype); when none matches
\* the categorical statistics are tagged other, with no recommendation.
C8_FirstMatchingRule ==
    \A c \in Analysed :
        LET entry == profiling_results.columns[c]
            suggested_type == entry.type_inference.suggested_type
            dtype == df.dtypes[c]
        IN  /\ entry.type \in {"numeric", "categorical", "datetime", "other", "error"}
            /\ entry.type # "error" =>
                 entry.type =
                     IF NumericRule(suggested_type, dtype) THEN "numeric"
                     ELSE IF CategoricalRule(suggested_type, dtype) THEN "categorical"
                     ELSE IF DatetimeRule(suggested_type, dtype) THEN "datetime"
                     ELSE "other"
            /\ entry.type = "other" =>
                 /\ entry.recommendations = <<>>
                 /\ {"unique_count", "value_counts", "is_high_cardinality"}
                        \subseteq DOMAIN entry

\* a run completed with a column that two rules match (an object column of
\* Python ints, suggested type numeric) on the numeric path and a column no
\* rule matches tagged other
C8_Witness ==
    /\ pc = "prof_done"
    /\ \E c, o \in ProfColumnSet :
         /\ df.dtypes[c] = "object"
         /\ profiling_results.columns[c].type_inference.suggested_type = "numeric"
         /\ profiling_results.columns[c].type = "numeric"
         /\ profiling_results.columns[o].type = "other"

----------------------------------------------------------------------------
(* SpecGeneral: one call of get_general_recommendations on a dataset       *)

\* the facts of the datasets: row counts and memory around the thresholds,
\* fewer duplicates than rows, and the step that raises, if any (len for an
\* argument that is no DataFrame, memory_usage, duplicated for unhashable
\* cells)
GeneralFacts ==
    {f \in [n_rows     : {0, 99, 100, 101, 1000000, 1000001},
            memory_mb  : {0, 1000, 1001},
            duplicates : {0, 1, 2},
            raises     : {"", "len", "memory_usage", "duplicated"}] :
        f.duplicates < f.n_rows \/ f.duplicates = 0}

GenInit ==
    /\ pc = "gen_call"
    /\ fn = "general"
    /\ analysis \in GeneralFacts
    /\ recommendations = <<>>
    /\ InferIdle /\ ConvIdle /\ ProfIdle

CallGeneral ==
    /\ pc = "gen_call"
    /\ recommendations' = get_general_recommendations(analysis)
    /\ pc' = "gen_done"
    /\ UNCHANGED <<fn, analysis, inferVars, convVars, profVars>>

GenNext == CallGeneral

SpecGeneral == GenInit /\ [][GenNext]_vars

\* the kinds of the recommendations returned
GeneralKinds == {recommendations[i].kind : i \in 1..Len(recommendations)}

\* C11: with no step raising, the list returned holds the collect-more-data
\* recommendation exactly when the dataset has fewer than 100 rows, the
\* sample-or-chunk one exactly when it has more than 1,000,000 rows, the
\* optimize-dtypes one exactly when the memory exceeds 1000 MB and the
\* remove-duplicates one exactly when a row is duplicated.
C11_GeneralTriggers ==
    pc = "gen_done" /\ analysis.raises = "" =>
        /\ "small_dataset" \in GeneralKinds <=> analysis.n_rows < 100
        /\ "large_dataset" \in GeneralKinds <=> analysis.n_rows > 1000000
        /\ "high_memory" \in GeneralKinds <=> analysis.memory_mb > 1000
        /\ "duplicates" \in GeneralKinds <=> analysis.duplicates > 0

\* C12: when a step raises, the list returned is the error recommendation
\* alone.
C12_SingleError ==
    pc = "gen_done" /\ analysis.raises # "" =>
        recommendations = <<Rec("general_error", analysis.raises, 0)>>

----------------------------------------------------------------------------
(* StatisticalAnalyzer.analyze_numeric, the numbers.  A column of numbers   *)
(* is a record [values, nulls]: its non-null values, integers, in order,   *)
(* and the number of its NaN cells (no statistic depends on where they     *)
(* are).  A real result is an exact fraction [num, den].                   *)

RECURSIVE Sum(_)
Sum(xs) == IF xs = <<>> THEN 0 ELSE Head(xs) + Sum(Tail(xs))

\* The mean taken over all the rows, the nulls included.
Mut_numeric_mean(col) ==
    [num |-> Sum(col.values), den |-> Len(col.values) + col.nulls]

\* statistical.py:26: clean_series.mean()
numeric_mean(col) == [num |-> Sum(col.values), den |-> Len(col.values)]

\* n times the deviation of x from the mean
Deviation(col, x) == numeric_mean(col).den * x - numeric_mean(col).num

\* n^2 times the sum of the squared deviations from the mean
SquaredDeviations(col) ==
    Sum([i \in 1..Len(col.values) |-> Deviation(col, col.values[i]) * Deviation(col, col.values[i])])

\* statistical.py:30: clean_series.var(), the sample variance (ddof=1); the
\* standard deviation is its square root
numeric_var(col) ==
    LET n == Len(col.values)
    IN  IF n > 1 THEN [num |-> SquaredDeviations(col), den |-> n * n * (n - 1)]
        ELSE [num |-> NaN, den |-> 1]

\* the square of stats.zscore (ddof=0) at the value x:
\* (x - mean)^2 / (sum of squared deviations / n)
zscore_squared(col, x) ==
    [num |-> Deviation(col, x) * Deviation(col, x) * Len(col.values),
     den |-> SquaredDeviations(col)]

ZScoreCutoff == 3

\* The cutoff taken as 1.5, the multiplier of the IQR method.
Mut_zscore_outliers(col) ==
    Cardinality({i \in 1..Len(col.values) :
        4 * zscore_squared(col, col.values[i]).num
            > 9 * zscore_squared(col, col.values[i]).den})

\* stats.zscore computes (x - mean) / std in binary floating point, so a
\* value whose exact |z| is the cutoff comes out as 3.0 or next to it. For
\* the columns of the model that hold such a value: nine 0 and one 71 give
\* mean 7.1, deviation 63.9, std 21.299999999999997 and z =
\* 3.0000000000000004, whatever the order of the sums; nine 0 and one 70
\* give z = 3.0.
rounds_above(col) == \E i \in 1..Len(col.values) : col.values[i] = 71

\* statistical.py:111-114: len(series[np.abs(stats.zscore(series)) > 3]); a
\* constant column has z = nan, which exceeds nothing
zscore_outliers(col) ==
    Cardinality({i \in 1..Len(col.values) :
        LET z == zscore_squared(col, col.values[i])
        IN  \/ z.num > ZScoreCutoff * ZScoreCutoff * z.den
            \/ /\ z.den # 0
               /\ z.num = ZScoreCutoff * ZScoreCutoff * z.den
               /\ rounds_above(col)})

\* statistical.py:14-55: the count and the moments of analyze_numeric
numeric_statistics(col) ==
    IF Len(col.values) = 0 THEN Ok(("error" :> "No valid numeric values found"))
    ELSE Ok([count |-> Len(col.values),
             missing_count |-> col.nulls,
             missing_percentage |->
                 (col.nulls * Hundredths(100)) \div (Len(col.values) + col.nulls),
             mean |-> numeric_mean(col),
             var |-> numeric_var(col),
             zscore_outliers |-> zscore_outliers(col)])

----------------------------------------------------------------------------
(* SpecStats: one call of a StatisticalAnalyzer method on a column         *)

StatRows == 3

\* categorical columns of 1000 rows with a value occurring 9 or 10 times, a
\* second one occurring 10 times, and 0 or 100 nulls
RareSeries ==
    {[dtype |-> "object", nulls |-> k,
      cells |-> [v \in Values |-> CASE v = "abc"    -> n
                                    [] v = "a@b.co" -> 10
                                    [] v = "12345"  -> 1000 - k - n - 10
                                    [] OTHER        -> 0]] :
        k \in {0, 100}, n \in {9, 10}}

MaxValues == 4

\* the columns of numbers: at most MaxValues ages and at most one NaN, among
\* them age = [25, 30, NaN, 40, 200], and a column of ten 25 and one 200
NumberColumns ==
    {[values |-> xs, nulls |-> k] :
        xs \in UNION {[1..n -> {25, 30, 40, 200}] : n \in 0..MaxValues}, k \in {0, 1}}
    \cup {[values |-> [i \in 1..11 |-> IF i = 11 THEN 200 ELSE 25], nulls |-> 0]}
    \cup {[values |-> [i \in 1..10 |-> IF i = 10 THEN x ELSE 0], nulls |-> 0] :
              x \in {70, 71}}

\* the columns each method is called on: analyze_numeric on the number
\* dtypes (and, for its numbers, on the columns of numbers), analyze_datetime on datetime columns and on object columns of one
\* date format
StatSeries(method) ==
    CASE method = "numbers"  -> NumberColumns
      [] method = "numeric"  -> UNION {SeriesOf(d, StatRows) : d \in {"int64", "float64", "bool"}}
      [] method = "datetime" ->
            SeriesOf("datetime64", StatRows)
            \cup {s \in SeriesOf("object", StatRows) :
                      ~({"2020-01-15", "20200115"} \subseteq Support(s))}
      [] OTHER -> UNION {SeriesOf(d, StatRows) : d \in Dtypes} \cup RareSeries

StatInit ==
    /\ pc = "stat_call"
    /\ fn \in {"numeric", "numbers", "categorical", "datetime"}
    /\ series \in StatSeries(fn)
    /\ analysis = EmptyDict
    /\ recommendations = Idle /\ type_info = Idle
    /\ ConvIdle /\ ProfIdle

AnalyzeNumeric ==
    /\ pc = "stat_call" /\ fn = "numeric"
    /\ analysis' = analyze_numeric(series)
    /\ pc' = "stat_done"
    /\ UNCHANGED <<fn, recommendations, inferVars, convVars, profVars>>

AnalyzeCategorical ==
    /\ pc = "stat_call" /\ fn = "categorical"
    /\ analysis' = analyze_categorical(series)
    /\ pc' = "stat_done"
    /\ UNCHANGED <<fn, recommendations, inferVars, convVars, profVars>>

AnalyzeDatetime ==
    /\ pc = "stat_call" /\ fn = "datetime"
    /\ analysis' = analyze_datetime(series)
    /\ pc' = "stat_done"
    /\ UNCHANGED <<fn, recommendations, inferVars, convVars, profVars>>

AnalyzeNumbers ==
    /\ pc = "stat_call" /\ fn = "numbers"
    /\ analysis' = numeric_statistics(series)
    /\ pc' = "stat_done"
    /\ UNCHANGED <<fn, recommendations, inferVars, convVars, profVars>>

StatNext == AnalyzeNumeric \/ AnalyzeNumbers \/ AnalyzeCategorical \/ AnalyzeDatetime

SpecStats == StatInit /\ [][StatNext]_vars

\* the method returned statistics: it did not raise and gave no error marker
ReturnedStatistics ==
    pc = "stat_done" /\ analysis.exc = "" /\ "error" \notin DOMAIN analysis.result

\* C13: for a column of length N, the statistics of analyze_numeric and of
\* analyze_datetime have count + missing_count = N, count being the number
\* of non-null (parseable) values; analyze_categorical always reports
\* count = N, so that count + missing_count = N + the number of nulls.
C13_CountAccounting ==
    /\ ReturnedStatistics /\ fn = "numeric" =>
         /\ analysis.result.count = NonNull(series)
         /\ analysis.result.count + analysis.result.missing_count = Length(series)
    /\ ReturnedStatistics /\ fn = "datetime" =>
         /\ analysis.result.count =
                (IF series.dtype = "datetime64" THEN NonNull(series)
                 ELSE datetime_valid_count(series))
         /\ analysis.result.count + analysis.result.missing_count = Length(series)
    /\ pc = "stat_done" /\ fn = "categorical" =>
         /\ ReturnedStatistics
         /\ analysis.result.count = Length(series)
         /\ analysis.result.count + analysis.result.missing_count
                = Length(series) + series.nulls

\* C16: analyze_categorical lists a value as rare exactly when its count is
\* strictly below 1% of the rows of the column; in a column of 1000 rows a
\* value occurring 9 times is listed and one occurring 10 times is not.
C16_RareByColumnFrequency ==
    ReturnedStatistics /\ fn = "categorical" =>
        \A v \in Support(series) :
            /\ v \in analysis.result.rare_categories <=> 100 * series.cells[v] < Length(series)
            /\ Length(series) = 1000 /\ series.cells[v] = 9
                 => v \in analysis.result.rare_categories
            /\ Length(series) = 1000 /\ series.cells[v] = 10
                 => v \notin analysis.result.rare_categories

\* C16 amended: a value is listed as rare exactly when its count is strictly
\* below 1% of the non-null values of the column; among 1000 non-null values
\* a value occurring 9 times is listed and one occurring 10 times is not.
C16_RareAmongNonNull ==
    ReturnedStatistics /\ fn = "categorical" =>
        /\ analysis.result.rare_categories \subseteq Support(series)
        /\ \A v \in Support(series) :
            /\ v \in analysis.result.rare_categories <=> 100 * series.cells[v] < NonNull(series)
            /\ NonNull(series) = 1000 /\ series.cells[v] = 9
                 => v \in analysis.result.rare_categories
            /\ NonNull(series) = 1000 /\ series.cells[v] = 10
                 => v \notin analysis.result.rare_categories

\* a column of 1000 non-null values analysed, its value of 9 occurrences
\* listed and its value of 10 occurrences not
C16_Witness ==
    /\ ReturnedStatistics /\ fn = "categorical"
    /\ NonNull(series) = 1000 /\ series.nulls = 0
    /\ series.cells["abc"] = 9 /\ "abc" \in analysis.result.rare_categories
    /\ series.cells["a@b.co"] = 10 /\ "a@b.co" \notin analysis.result.rare_categories

\* the column age = [25, 30, NaN, 40, 200] has been analysed
AgeAnalysed ==
    /\ pc = "stat_done" /\ fn = "numbers"
    /\ series = [values |-> <<25, 30, 40, 200>>, nulls |-> 1]

\* C14: for age = [25, 30, NaN, 40, 200], analyze_numeric reports count = 4,
\* missing_count = 1, missing_percentage = 20.0 and zscore_outliers = 0.
C14_AgeCounts ==
    AgeAnalysed =>
        /\ analysis.exc = ""
        /\ analysis.result.count = 4
        /\ analysis.result.missing_count = 1
        /\ analysis.result.missing_percentage = Hundredths(20)
        /\ analysis.result.zscore_outliers = 0

\* the age column analysed, none of its values beyond the cutoff
C14_Witness ==
    AgeAnalysed /\ analysis.exc = "" /\ analysis.result.zscore_outliers = 0

\* C15: for age = [25, 30, NaN, 40, 200] the mean is 98.75, the standard
\* deviation about 83.2 (83.15 <= std < 83.25) and the z-score of 200 about
\* 1.21 (1.15 <= z < 1.25).
C15_AgeMoments ==
    AgeAnalysed =>
        /\ 100 * analysis.result.mean.num = 9875 * analysis.result.mean.den
        /\ 1663 * 1663 * analysis.result.var.den <= 400 * analysis.result.var.num
        /\ 400 * analysis.result.var.num < 1665 * 1665 * analysis.result.var.den
        /\ 529 * zscore_squared(series, 200).den <= 400 * zscore_squared(series, 200).num
        /\ 400 * zscore_squared(series, 200).num < 625 * zscore_squared(series, 200).den

\* C15 amended: the mean is 73.75, the standard deviation about 84.4
\* (84.35 <= std < 84.45) and the z-score of 200 about 1.7 (1.65 <= z < 1.75).
C15_AgeMomentsAmended ==
    AgeAnalysed =>
        /\ 100 * analysis.result.mean.num = 7375 * analysis.result.mean.den
        /\ 1687 * 1687 * analysis.result.var.den <= 400 * analysis.result.var.num
        /\ 400 * analysis.result.var.num < 1689 * 1689 * analysis.result.var.den
        /\ 1089 * zscore_squared(series, 200).den <= 400 * zscore_squared(series, 200).num
        /\ 400 * zscore_squared(series, 200).num < 1225 * zscore_squared(series, 200).den

\* the age column analysed, with its mean over the four non-null values
C15_Witness ==
    AgeAnalysed /\ analysis.exc = "" /\ analysis.result.mean = [num |-> 295, den |-> 4]

----------------------------------------------------------------------------
(* SpecIds: one call of check_id_uniqueness or of                          *)
(* check_composite_id_uniqueness on a dataset                              *)

IdRows == 3

\* id = [1, 2, 2, 3, 3, 3]
SixIds ==
    [dtypes |-> [c \in {"a", "b"} |-> "object"],
     py     |-> [c \in {"a", "b"} |-> IF c = "a" THEN "int" ELSE "str"],
     rows   |-> [i \in 1..6 |-> [c \in {"a", "b"} |->
                    IF c = "b" THEN "a"
                    ELSE IF i = 1 THEN "1" ELSE IF i <= 3 THEN "2" ELSE "3"]]]

\* the datasets of at most IdRows rows, column a holding 1, 2, 3 or a null
\* and column b holding "a" or "b", and the dataset of six IDs
IdDatasets ==
    {[dtypes |-> [c \in {"a", "b"} |-> "object"],
      py     |-> [c \in {"a", "b"} |-> IF c = "a" THEN "int" ELSE "str"],
      rows   |-> r] :
        r \in UNION {[1..n -> {[c \in {"a", "b"} |-> IF c = "a" THEN x ELSE y] :
                                 x \in {"1", "2", "3", NULL}, y \in {"a", "b"}}] :
                     n \in 0..IdRows}}
    \cup {SixIds}

\* the datasets of at most 2 rows whose cells hold the separator of the
\* composite key, a null or the text "nan"
KeyDatasets ==
    {[dtypes |-> [c \in {"a", "b"} |-> "object"],
      py     |-> [c \in {"a", "b"} |-> "str"],
      rows   |-> r] :
        r \in UNION {[1..n -> {[c \in {"a", "b"} |-> IF c = "a" THEN x ELSE y] :
                                 x \in {"x", "x||y", NULL, "nan"}, y \in {"z", "y||z"}}] :
                     n \in 1..2}}

\* the id_cols of a call; "zz" names a column the datasets do not have
IdRequests == {<<"a">>, <<"zz">>, <<"a", "b">>, <<"b", "a">>, <<"zz", "a">>, <<"a", "zz">>}

IdInit ==
    /\ pc = "id_call"
    /\ df \in IdDatasets \cup KeyDatasets
    /\ config \in [id_cols : IdRequests]
    /\ profiling_results = EmptyDict
    /\ prof_i = 0
    /\ raised = ""
    /\ RecIdle /\ InferIdle /\ ConvIdle

\* enhanced.py:166-210
CheckIdUniqueness ==
    /\ pc = "id_call"
    /\ profiling_results' = check_id_uniqueness(df, config.id_cols)
    /\ pc' = "id_done"
    /\ UNCHANGED <<df, config, prof_i, raised, recVars, inferVars, convVars>>

\* enhanced.py:212-254
CheckCompositeIdUniqueness ==
    /\ pc = "id_call"
    /\ profiling_results' = check_composite_id_uniqueness(df, config.id_cols)
    /\ pc' = "composite_done"
    /\ UNCHANGED <<df, config, prof_i, raised, recVars, inferVars, convVars>>

IdNext == CheckIdUniqueness \/ CheckCompositeIdUniqueness

SpecIds == IdInit /\ [][IdNext]_vars

\* the requested columns, and those of them the dataset has
Requested == {config.id_cols[i] : i \in 1..Len(config.id_cols)}

Present == Requested \cap DOMAIN df.dtypes

\* the distinct non-null values of a column
Distinct(c) == {df.rows[i][c] : i \in 1..Len(df.rows)} \ {NULL}

\* C17: for every ID column present, check_id_uniqueness reports total_count
\* = rows, unique_count = distinct values, duplicate_count = total - unique,
\* uniqueness_percentage = 100 * unique / total, is_unique = (duplicate_count
\* = 0) and the occurrences of each value occurring more than once (at most
\* 10 of them); for
\* [1, 2, 2, 3, 3, 3]: 6, 3, 3, 50.0, False, {2: 2, 3: 3}.
C17_IdStatistics ==
    pc = "id_done" =>
        /\ profiling_results.exc = ""
        /\ \A c \in Present :
             LET e == profiling_results.result[c]
             IN  /\ e.total_count = Len(df.rows)
                 /\ e.unique_count = Cardinality(Distinct(c))
                 /\ e.duplicate_count = e.total_count - e.unique_count
                 /\ e.uniqueness_percentage.num * e.total_count
                        = 100 * e.unique_count * e.uniqueness_percentage.den
                 /\ e.is_unique = (e.duplicate_count = 0)
                 /\ LET repeated == {v \in Distinct(c) : Occurrences(df, c, v) > 1}
                    IN  /\ DOMAIN e.duplicate_value_counts \subseteq repeated
                        /\ Cardinality(DOMAIN e.duplicate_value_counts)
                               = IF Cardinality(repeated) > 10 THEN 10
                                 ELSE Cardinality(repeated)
                 /\ \A v \in DOMAIN e.duplicate_value_counts :
                        e.duplicate_value_counts[v] = Occurrences(df, c, v)
        /\ df = SixIds /\ "a" \in Present =>
             LET e == profiling_results.result["a"]
             IN  /\ e.total_count = 6 /\ e.unique_count = 3 /\ e.duplicate_count = 3
                 /\ e.uniqueness_percentage = [num |-> 300, den |-> 6]
                 /\ ~e.is_unique
                 /\ e.duplicate_value_counts = ("2" :> 2) @@ ("3" :> 3)

\* C18: check_id_uniqueness does not raise and returns one entry per
\* requested column, an error entry for each absent column and the statistics
\* for each present one, whatever the order of the request;
\* check_composite_id_uniqueness returns an error mapping, and no count, for
\* fewer than 2 columns or for an absent column.
C18_NoRaiseOnBadReference ==
    /\ pc = "id_done" =>
         /\ profiling_results.exc = ""
         /\ DOMAIN profiling_results.result = Requested
         /\ \A c \in Requested \ Present : DOMAIN profiling_results.result[c] = {"error"}
         /\ \A c \in Present :
                {"total_count", "unique_count", "duplicate_count", "is_unique"}
                    \subseteq DOMAIN profiling_results.result[c]
    /\ pc = "composite_done" /\ (Len(config.id_cols) < 2 \/ Present # Requested) =>
         /\ profiling_results.exc = ""
         /\ DOMAIN profiling_results.result = {"error"}

\* C19: for two or more existing ID columns, check_composite_id_uniqueness
\* joins the stringified cells of each row with "||" and reports total_count
\* = rows, unique_count = distinct keys, duplicate_count = total - unique,
\* is_unique = (duplicate_count = 0) and the requested columns; for rows
\* (1, a), (1, a), (1, b): 3, 2, 1.
C19_CompositeKey ==
    pc = "composite_done" /\ Len(config.id_cols) >= 2 /\ Present = Requested =>
        LET keys == {AsStr(df.rows[i][config.id_cols[1]]) \o "||"
                         \o AsStr(df.rows[i][config.id_cols[2]]) : i \in 1..Len(df.rows)}
            e == profiling_results.result
        IN  /\ profiling_results.exc = ""
            /\ e.composite_columns = config.id_cols
            /\ e.total_count = Len(df.rows)
            /\ e.unique_count = Cardinality(keys)
            /\ e.duplicate_count = e.total_count - e.unique_count
            /\ e.is_unique = (e.duplicate_count = 0)
            /\ df.rows = <<[a |-> "1", b |-> "a"], [a |-> "1", b |-> "a"],
                           [a |-> "1", b |-> "b"]>>
                 => e.total_count = 3 /\ e.unique_count = 2 /\ e.duplicate_count = 1

----------------------------------------------------------------------------
(* SpecCorr: one call of analyze_target_correlation on a dataset of number *)
(* columns, the coefficients computed exactly                              *)

CorrRows == 3

\* sum of f[i] * g[i]
RECURSIVE Dot(_, _)
Dot(f, g) == IF f = <<>> THEN 0 ELSE Head(f) * Head(g) + Dot(Tail(f), Tail(g))

\* DataFrame.corr() (Pearson) of two columns without null: the covariance
\* and the two variances, each times n * n. The coefficient is
\* cov / sqrt(var_x * var_y), NaN (0 / 0) when a column is constant.
pearson(x, y) ==
    LET n == Len(x)
    IN  [cov   |-> n * Dot(x, y) - Sum(x) * Sum(y),
         var_x |-> n * Dot(x, x) - Sum(x) * Sum(x),
         var_y |-> n * Dot(y, y) - Sum(y) * Sum(y)]

\* the coefficient is NaN
IsNaN(r) == r.var_x * r.var_y = 0

\* correlations.abs() >= 0.7 and correlations.abs() < 0.7, likewise 0.3; a
\* comparison with NaN is False
AbsAtLeast(r, tenths) ==
    ~IsNaN(r) /\ 100 * r.cov * r.cov >= tenths * tenths * r.var_x * r.var_y

AbsBelow(r, tenths) ==
    ~IsNaN(r) /\ 100 * r.cov * r.cov < tenths * tenths * r.var_x * r.var_y

\* enhanced.py:40-56 for one numeric target; correlations[mask].to_dict()
\* keeps the features whose mask is True
target_correlation(d, target_col) ==
    LET correlations == [f \in DOMAIN d \ {target_col} |-> pearson(d[f], d[target_col])]
        Strong(r) == AbsAtLeast(r, 7)
        Moderate(r) == AbsAtLeast(r, 3) /\ AbsBelow(r, 7)
        Weak(r) == AbsBelow(r, 3)
        Masked(mask(_)) ==
            [f \in {g \in DOMAIN correlations : mask(correlations[g])} |-> correlations[f]]
    IN  [correlations          |-> correlations,
         strong_correlations   |-> Masked(Strong),
         moderate_correlations |-> Masked(Moderate),
         weak_correlations     |-> Masked(Weak)]

\* enhanced.py:16-58 on a dataset whose columns all are of a number dtype:
\* a target that is not a column is skipped
correlation_results(d, target_cols) ==
    [t \in {target_cols[i] : i \in 1..Len(target_cols)} \cap DOMAIN d |->
        target_correlation(d, t)]

\* the datasets of three number columns of at most CorrRows rows
CorrDatasets ==
    UNION {[{"t", "x", "y"} -> [1..n -> 0..2]] : n \in 0..CorrRows}

CorrRequests == {<<"t">>, <<"x", "t">>, <<"zz", "y">>}

CorrInit ==
    /\ pc = "corr_call"
    /\ df \in CorrDatasets
    /\ config \in [target_col : CorrRequests]
    /\ profiling_results = EmptyDict
    /\ prof_i = 0
    /\ raised = ""
    /\ RecIdle /\ InferIdle /\ ConvIdle

AnalyzeTargetCorrelation ==
    /\ pc = "corr_call"
    /\ profiling_results' = correlation_results(df, config.target_col)
    /\ pc' = "corr_done"
    /\ UNCHANGED <<df, config, prof_i, raised, recVars, inferVars, convVars>>

CorrNext == AnalyzeTargetCorrelation

SpecCorr == CorrInit /\ [][CorrNext]_vars

\* C20: for each numeric target every feature of 'correlations' is in exactly
\* one of the three buckets, strong when |r| >= 0.7, moderate when
\* 0.3 <= |r| < 0.7, weak when |r| < 0.3; the buckets are pairwise disjoint
\* and together cover the correlation mapping, a feature whose correlation
\* is undefined (constant column) included.
C20_BucketsPartition ==
    pc = "corr_done" =>
        \A t \in DOMAIN profiling_results :
            LET e == profiling_results[t]
                strong == DOMAIN e.strong_correlations
                moderate == DOMAIN e.moderate_correlations
                weak == DOMAIN e.weak_correlations
            IN  /\ strong \cap moderate = {}
                /\ strong \cap weak = {}
                /\ moderate \cap weak = {}
                /\ strong \cup moderate \cup weak = DOMAIN e.correlations
                /\ \A f \in DOMAIN e.correlations :
                       LET r == e.correlations[f]
                       IN  /\ f \in strong <=> AbsAtLeast(r, 7)
                           /\ f \in moderate <=> AbsAtLeast(r, 3) /\ AbsBelow(r, 7)
                           /\ f \in weak <=> AbsBelow(r, 3)

----------------------------------------------------------------------------
(* SpecCat: one call of analyze_categorical_by_target                      *)

\* the candidate columns of a call: None, or a list; "zz" names a column the
\* datasets do not have
CandidateColumns == {<<"None">>, <<>>, <<"a">>, <<"b">>, <<"a", "b">>, <<"b", "zz">>}

CatInit ==
    /\ pc = "cat_call"
    /\ df \in ProfDatasets
    /\ config \in [target_col : {"a", "b", "zz"}, categorical_cols : CandidateColumns]
    /\ profiling_results = EmptyDict
    /\ prof_i = 0
    /\ raised = ""
    /\ RecIdle /\ InferIdle /\ ConvIdle

AnalyzeCategoricalByTarget ==
    /\ pc = "cat_call"
    /\ profiling_results' =
           analyze_categorical_by_target(df, config.target_col, config.categorical_cols)
    /\ pc' = "cat_done"
    /\ UNCHANGED <<df, config, prof_i, raised, recVars, inferVars, convVars>>

CatNext == AnalyzeCategoricalByTarget

SpecCat == CatInit /\ [][CatNext]_vars

\* C21: the result of analyze_categorical_by_target never holds an entry for
\* the target column, whether the candidates are derived from the dataset or
\* listed by the caller, the target included; a target absent from the
\* dataset yields an empty result without raising.
C21_TargetExcluded ==
    pc = "cat_done" =>
        /\ profiling_results.exc = ""
        /\ config.target_col \notin DOMAIN profiling_results.result
        /\ config.target_col \notin DOMAIN df.dtypes => profiling_results.result = EmptyDict

----------------------------------------------------------------------------
(* SpecThresholds: the analysis of one column by a profiler holding a       *)
(* configuration of cutoffs. The analysers and the recommendation rules    *)
(* take the column and its statistics only: self.config is not passed to   *)
(* them (profiler.py:166-205).                                             *)

\* config.py:56-67: outlier_threshold (z-score), high_cardinality_threshold
\* (distinct values) and missing_value_threshold (here in percent)
ThresholdConfigs ==
    [outlier_threshold : {1, 3}, high_cardinality_threshold : {2, 50},
     missing_value_threshold : {5, 50}]

ThrInit ==
    /\ pc = "thr_call"
    /\ fn \in {"numbers", "categorical"}
    /\ series \in IF fn = "numbers" THEN NumberColumns ELSE SeriesOf("object", StatRows)
    /\ config \in ThresholdConfigs
    /\ analysis = EmptyDict
    /\ recommendations = <<>>
    /\ type_info = Idle
    /\ df = Idle /\ profiling_results = Idle /\ prof_i = 0 /\ raised = ""
    /\ ConvIdle

\* profiler.py:181-183
ProfileNumbers ==
    /\ pc = "thr_call" /\ fn = "numbers"
    /\ analysis' = numeric_statistics(series)
    /\ recommendations' = get_numeric_recommendations(analysis'.result)
    /\ pc' = "thr_done"
    /\ UNCHANGED <<fn, inferVars, convVars, profVars>>

\* profiler.py:184-186
ProfileCategory ==
    /\ pc = "thr_call" /\ fn = "categorical"
    /\ analysis' = analyze_categorical(series)
    /\ recommendations' = IF analysis'.exc = ""
                          THEN get_categorical_recommendations(analysis'.result)
                          ELSE <<>>
    /\ pc' = "thr_done"
    /\ UNCHANGED <<fn, inferVars, convVars, profVars>>

ThrNext == ProfileNumbers \/ ProfileCategory

SpecThresholds == ThrInit /\ [][ThrNext]_vars

\* a recommendation of the kind was given
Recommended(kind) == \E i \in 1..Len(recommendations) : recommendations[i].kind = kind

\* C22: the cutoffs applied while profiling are the ones of the
\* configuration: a value is a z-score outlier when |z| exceeds
\* config.outlier_threshold, a column is of high cardinality when its
\* distinct values exceed config.high_cardinality_threshold, and missing
\* values are flagged above the configured missing-value threshold.
C22_ConfiguredCutoffs ==
    pc = "thr_done" /\ analysis.exc = "" /\ "error" \notin DOMAIN analysis.result =>
        LET a == analysis.result
        IN  /\ Recommended("missing")
                 <=> a.missing_percentage > Hundredths(config.missing_value_threshold)
            /\ fn = "numbers" =>
                 a.zscore_outliers
                     = Cardinality({i \in 1..Len(series.values) :
                           zscore_squared(series, series.values[i]).num
                               > config.outlier_threshold * config.outlier_threshold
                                     * zscore_squared(series, series.values[i]).den})
            /\ fn = "categorical" =>
                 (a.is_high_cardinality
                      <=> a.unique_count > config.high_cardinality_threshold)

----------------------------------------------------------------------------
(* DataValidator (validators.py). Thresholds and rates are in percent.     *)

\* validators.py:126: failed_conversion.sum(), the non-null values that
\* pd.to_numeric(errors="coerce") turns into NaN
failure_count(s) == NonNull(s) - numeric_valid_count(s)

\* The condition with the numeric rate above 1 - threshold, not equal to it.
Mut_is_messy(s, threshold) ==
    /\ s.dtype = "object"
    /\ NonNull(s) # 0
    /\ 100 * (NonNull(s) - failure_count(s)) > (100 - threshold) * NonNull(s)
    /\ failure_count(s) > 0

\* validators.py:113-134: an object column with a non-null value, whose
\* numeric_rate = 1 - failure_count / len(non_null) is >= 1 - threshold and
\* whose failure_count is > 0
is_messy(s, threshold) ==
    /\ s.dtype = "object"
    /\ NonNull(s) # 0
    /\ 100 * (NonNull(s) - failure_count(s)) >= (100 - threshold) * NonNull(s)
    /\ failure_count(s) > 0

\* validators.py:138-146
ColumnValidationError(col, s) ==
    [column_name |-> col,
     error_percentage |-> [num |-> failure_count(s), den |-> NonNull(s)],
     error_count |-> failure_count(s),
     sample_errors |-> {v \in Support(s) : ~NumericParse(v)}]

\* validators.py:98-148, over the columns in their order
RECURSIVE detect_messy_numeric_columns(_, _, _, _)
detect_messy_numeric_columns(d, columns, threshold, i) ==
    IF i > Len(columns) THEN <<>>
    ELSE LET rest == detect_messy_numeric_columns(d, columns, threshold, i + 1)
         IN  IF is_messy(d[columns[i]], threshold)
             THEN <<ColumnValidationError(columns[i], d[columns[i]])>> \o rest
             ELSE rest

\* validators.py:83-96
validate_dataframe(d, columns, threshold) ==
    LET errors == detect_messy_numeric_columns(d, columns, threshold, 1)
    IN  IF errors # <<>>
        THEN [exc |-> "DataValidationError", column_errors |-> errors]
        ELSE [exc |-> "", column_errors |-> <<>>]

----------------------------------------------------------------------------
(* SpecValidate: one call of validate_dataframe by a validator whose       *)
(* threshold the constructor accepted                                      *)

MaxNumeric == 19

MaxFailing == 2

\* a column of n values that convert, k that do not and m nulls
ValColumn(dtype, n, k, m) ==
    [dtype |-> dtype, nulls |-> m,
     cells |-> [v \in Values |-> IF v = "12345" THEN n ELSE IF v = "abc" THEN k ELSE 0]]

ValColumns ==
    {ValColumn("object", n, k, m) : n \in 0..MaxNumeric, k \in 0..MaxFailing, m \in 0..1}
    \cup {ValColumn("int64", n, 0, 0) : n \in 1..MaxNumeric}

\* the dataframes of two columns and the dataframe without column
ValDataframes ==
    {[columns |-> <<"amount", "price">>, cols |-> ("amount" :> a) @@ ("price" :> b)] :
        a \in ValColumns, b \in {ValColumn("object", 9, 1, 0), ValColumn("object", 1, 0, 1),
                                 ValColumn("object", 0, 0, 1), ValColumn("int64", 2, 0, 0)}}
    \cup {[columns |-> <<>>, cols |-> EmptyDict]}

ValThresholds == {0, 5, 20, 100}

ValInit ==
    /\ pc = "val_call"
    /\ df \in ValDataframes
    /\ config \in [threshold : ValThresholds]
    /\ profiling_results = EmptyDict
    /\ prof_i = 0
    /\ raised = ""
    /\ RecIdle /\ InferIdle /\ ConvIdle

ValidateDataframe ==
    /\ pc = "val_call"
    /\ profiling_results' = validate_dataframe(df.cols, df.columns, config.threshold)
    /\ pc' = "val_done"
    /\ UNCHANGED <<df, config, prof_i, raised, recVars, inferVars, convVars>>

ValNext == ValidateDataframe

SpecValidate == ValInit /\ [][ValNext]_vars

\* the non-null values of a column that fail, and that pass, the conversion
Failing(c) == df.cols[c].cells["abc"]

Numeric(c) == df.cols[c].cells["12345"]

\* the claim's messy column: of string type, with a failing non-null value
\* and a numeric rate, over the non-null values, of at least 1 - threshold
Messy(c) ==
    /\ df.cols[c].dtype = "object"
    /\ Failing(c) >= 1
    /\ 100 * Numeric(c) >= (100 - config.threshold) * (Numeric(c) + Failing(c))

----------------------------------------------------------------------------
(* The thresholds of the configuration and of the validator, in percent    *)
(* where the code has a fraction of 1                                      *)

\* validators.py:71-81
DataValidator(threshold) ==
    IF ~(0 <= threshold /\ threshold <= 100)
    THEN Raise("ValueError: threshold must be between 0 and 1")
    ELSE Ok([threshold |-> threshold])

\* config.py:36-67: the Field constraints gt=0 and ge=0, le=1
field_constraints(f) ==
    /\ f.chunk_size > 0
    /\ f.max_memory_mb > 0
    /\ f.outlier_threshold > 0
    /\ 0 <= f.correlation_threshold /\ f.correlation_threshold <= 100
    /\ 0 <= f.missing_value_threshold /\ f.missing_value_threshold <= 100

\* config.py:24-114: HoneyCleanConfig(**fields), pydantic validating the
\* fields
HoneyCleanConfig(f) ==
    IF field_constraints(f) THEN Ok(f) ELSE Raise("ValidationError")

\* config.py:36-67, the defaults
DefaultFields ==
    [chunk_size |-> 10000, max_memory_mb |-> 1024, outlier_threshold |-> 3,
     correlation_threshold |-> 80, missing_value_threshold |-> 5]

\* config.py:147-234: a file that does not exist gives the defaults; an
\* exception while loading, the validation error of cls(**config_dict)
\* included, is logged and the defaults are returned
from_toml(file) ==
    IF ~file.exists THEN HoneyCleanConfig(DefaultFields)
    ELSE LET o == HoneyCleanConfig(file.fields)
         IN  IF o.exc # "" THEN HoneyCleanConfig(DefaultFields) ELSE o

\* the values tried for the fields
ConfigFields ==
    [chunk_size : {-1, 0, 10000}, max_memory_mb : {0, 1024}, outlier_threshold : {-3, 0, 3},
     correlation_threshold : {-10, 0, 80, 100, 150},
     missing_value_threshold : {-5, 5, 101}]

CfgInit ==
    /\ pc = "cfg_call"
    /\ config \in [threshold : {-10, 0, 5, 100, 150}, exists : BOOLEAN, fields : ConfigFields]
    /\ df = Idle
    /\ profiling_results = EmptyDict
    /\ prof_i = 0
    /\ raised = ""
    /\ RecIdle /\ InferIdle /\ ConvIdle

NewDataValidator ==
    /\ pc = "cfg_call"
    /\ fn' = "DataValidator"
    /\ profiling_results' = DataValidator(config.threshold)
    /\ pc' = "cfg_done"
    /\ UNCHANGED <<df, config, prof_i, raised, analysis, recommendations, inferVars, convVars>>

NewHoneyCleanConfig ==
    /\ pc = "cfg_call"
    /\ fn' = "HoneyCleanConfig"
    /\ profiling_results' = HoneyCleanConfig(config.fields)
    /\ pc' = "cfg_done"
    /\ UNCHANGED <<df, config, prof_i, raised, analysis, recommendations, inferVars, convVars>>

FromToml ==
    /\ pc = "cfg_call"
    /\ fn' = "from_toml"
    /\ profiling_results' = from_toml([exists |-> config.exists, fields |-> config.fields])
    /\ pc' = "cfg_done"
    /\ UNCHANGED <<df, config, prof_i, raised, analysis, recommendations, inferVars, convVars>>

CfgNext == NewDataValidator \/ NewHoneyCleanConfig \/ FromToml

SpecConfig == CfgInit /\ [][CfgNext]_vars

\* a threshold of the fields is negative or out of range
OutOfRange(f) ==
    \/ f.correlation_threshold < 0 \/ f.correlation_threshold > 100
    \/ f.missing_value_threshold < 0 \/ f.missing_value_threshold > 100
    \/ f.chunk_size <= 0 \/ f.max_memory_mb <= 0 \/ f.outlier_threshold <= 0

\* C24: a negative or out-of-range threshold is raised to the caller, never
\* accepted or replaced: DataValidator(threshold) raises ValueError outside
\* [0, 1]; HoneyCleanConfig raises a validation error for a
\* correlation_threshold or missing_value_threshold outside [0, 1] or a
\* non-positive chunk_size, max_memory_mb or outlier_threshold; from_toml
\* loading such a value raises too and returns no configuration.
C24_OutOfRangeRaises ==
    pc = "cfg_done" =>
        /\ (fn = "DataValidator" /\ (config.threshold < 0 \/ config.threshold > 100))
             => profiling_results.exc = "ValueError: threshold must be between 0 and 1"
        /\ (fn = "HoneyCleanConfig" /\ OutOfRange(config.fields))
             => profiling_results.exc = "ValidationError"
        /\ (fn = "from_toml" /\ config.exists /\ OutOfRange(config.fields))
             => profiling_results.exc # ""

----------------------------------------------------------------------------
(* Claims about the keys and the order of profile_dataset *)

\* the keys every result holds
BaseKeys == {"dataset_info", "columns", "general_recommendations"}

\* C25: the result of profile_dataset holds 'target_correlation' and
\* 'target_distribution' if and only if a target column is configured,
\* 'id_uniqueness' if and only if ID columns are configured,
\* 'composite_id_uniqueness' if and only if more than one ID column is
\* configured, 'categorical_by_<t>' if and only if the configured target t is
\* a column of the dataset and is not numeric; with neither configured it
\* holds dataset_info, columns and general_recommendations only.
C25_EnhancedKeys ==
    pc = "prof_done" =>
        LET keys == DOMAIN profiling_results
            targets == {config.target_col[i] : i \in 1..Len(config.target_col)}
            by_target == {"categorical_by_" \o t : t \in
                            {u \in targets \cap DOMAIN df.dtypes :
                                df.dtypes[u] \notin {"int64", "float64", "bool"}}}
        IN  /\ BaseKeys \subseteq keys
            /\ "target_correlation" \in keys <=> config.target_col # <<>>
            /\ "target_distribution" \in keys <=> config.target_col # <<>>
            /\ "id_uniqueness" \in keys <=> config.id_cols # <<>>
            /\ "composite_id_uniqueness" \in keys <=> Len(config.id_cols) > 1
            /\ keys \ (BaseKeys \cup {"target_correlation", "target_distribution",
                                      "id_uniqueness", "composite_id_uniqueness"})
                   = by_target
            /\ (config.target_col = <<>> /\ config.id_cols = <<>>) => keys = BaseKeys

\* a result with a numeric target and two ID columns
C25_Witness ==
    /\ pc = "prof_done"
    /\ config = [target_col |-> <<"a">>, id_cols |-> <<"a", "b">>]
    /\ df.dtypes["a"] = "int64"
    /\ DOMAIN profiling_results
           = BaseKeys \cup {"target_correlation", "target_distribution",
                            "id_uniqueness", "composite_id_uniqueness"}

\* the columns analysed so far, whatever the position of the run
ColumnsProduced ==
    IF "columns" \in DOMAIN profiling_results THEN DOMAIN profiling_results.columns ELSE {}

\* the dataset-level recommendations or a part of the enhanced analysis have
\* been produced
DatasetLevelRun ==
    DOMAIN profiling_results
        \cap {"general_recommendations", "target_correlation", "target_distribution",
              "id_uniqueness", "composite_id_uniqueness"} # {}

\* the run failed in the enhanced step: an exception left profile_dataset
\* while a configured part of the enhanced analysis was not yet in the result
EnhancedFailed ==
    /\ pc = "prof_raised"
    /\ \/ config.target_col # <<>> /\ "target_distribution" \notin DOMAIN profiling_results
       \/ config.id_cols # <<>> /\ "id_uniqueness" \notin DOMAIN profiling_results

\* the first columns of the dataset, in its order
FirstColumns(n) == {ProfColumns[i] : i \in 1..n}

\* C26: profile_dataset analyses the columns one by one in dataset column
\* order, and runs the dataset-level recommendations and the enhanced
\* analysis only after every column has been analysed, so that a failure in
\* these steps cannot occur before any column analysis has been produced.
C26_ColumnsFirst ==
    /\ \E n \in 0..Len(ProfColumns) : ColumnsProduced = FirstColumns(n)
    /\ DatasetLevelRun => ColumnsProduced = ProfColumnSet
    /\ EnhancedFailed => ColumnsProduced # {}

\* C26, amended: profile_dataset runs the dataset-level recommendations and
\* the enhanced analysis first and then analyses the columns one by one in
\* dataset column order, so that a failure in the enhanced step occurs before
\* any column analysis has been produced.
C26_EnhancedFirst ==
    /\ \E n \in 0..Len(ProfColumns) : ColumnsProduced = FirstColumns(n)
    /\ ColumnsProduced # {} =>
         /\ "general_recommendations" \in DOMAIN profiling_results
         /\ config.target_col # <<>> =>
                {"target_correlation", "target_distribution"} \subseteq DOMAIN profiling_results
         /\ config.id_cols # <<>> => "id_uniqueness" \in DOMAIN profiling_results
         /\ Len(config.id_cols) > 1 => "composite_id_uniqueness" \in DOMAIN profiling_results
    /\ pc \in {"prof_start", "prof_target", "prof_ids"} => ColumnsProduced = {}
    /\ pc = "prof_columns" => ColumnsProduced = FirstColumns(prof_i - 1)
    /\ EnhancedFailed => ColumnsProduced = {}

\* the first column has been analysed, the second not yet, after the
\* enhanced analysis of a target and of two ID columns
C26_Witness ==
    /\ pc = "prof_columns"
    /\ ColumnsProduced = {ProfColumns[1]}
    /\ config = [target_col |-> <<"a">>, id_cols |-> <<"a", "b">>]
    /\ {"target_distribution", "composite_id_uniqueness"} \subseteq DOMAIN profiling_results

\* C27: in every column analysis returned by _analyze_column, whichever
\* path produced it, an 'error' key comes with exactly one recommendation,
\* which carries the same error message; an all-null numeric column yields
\* type 'numeric', error 'No valid numeric values found' and one
\* recommendation.
C27_ErrorHasOneRecommendation ==
    \A c \in ColumnsProduced :
        LET a == profiling_results.columns[c]
            s == Column(df, c)
        IN  /\ "error" \in DOMAIN a =>
                 /\ Len(a.recommendations) = 1
                 /\ a.recommendations[1].error = a.error
            /\ (is_numeric_dtype(s.dtype) /\ NonNull(s) = 0) =>
                 /\ a.type = "numeric"
                 /\ "error" \in DOMAIN a
                 /\ a.error = "No valid numeric values found"
                 /\ Len(a.recommendations) = 1

\* a result with an all-null numeric column and a column analysed by the
\* exception fallback
C27_Witness ==
    /\ pc = "prof_done"
    /\ \E c \in ColumnsProduced :
         /\ profiling_results.columns[c].type = "numeric"
         /\ "error" \in DOMAIN profiling_results.columns[c]
         /\ Column(df, c).nulls > 0
    /\ \E c \in ColumnsProduced : profiling_results.columns[c].type = "error"

\* C28: for every ID column present in the dataset, check_id_uniqueness
\* reports is_unique = False if and only if duplicate_values is non-empty,
\* that is if and only if some value occurs in more than one row, also when
\* the column holds null values.
C28_NotUniqueIffDuplicates ==
    pc = "id_done" /\ profiling_results.exc = "" =>
        \A c \in Present :
            LET e == profiling_results.result[c]
            IN  /\ ~e.is_unique <=> e.duplicate_values # <<>>
                /\ e.duplicate_values # <<>>
                       <=> \E i, j \in 1..Len(df.rows) :
                               i # j /\ df.rows[i][c] = df.rows[j][c]

\* C29: check_composite_id_uniqueness takes two rows for the same composite
\* key only if they hold equal values in every ID column: when all rows
\* differ pairwise in some ID column, values holding "||" or differing by
\* type only included, it reports duplicate_count = 0 and is_unique = True.
C29_DistinctRowsDistinctKeys ==
    (/\ pc = "composite_done"
     /\ profiling_results.exc = ""
     /\ Len(config.id_cols) >= 2 /\ Present = Requested
     /\ \A i, j \in 1..Len(df.rows) :
            i # j => \E c \in Requested : df.rows[i][c] # df.rows[j][c])
    => /\ profiling_results.result.duplicate_count = 0
       /\ profiling_results.result.is_unique

\* C30: for any numeric column with at most 10 non-null values, whatever
\* the values, the z-score method reports zscore_outliers = 0, so that the
\* z-score recommendation triggers only for columns with at least 11
\* non-null values.
C30_NoOutlierUpToTen ==
    (pc = "thr_done" /\ fn = "numbers" /\ Len(series.values) <= 10
        /\ "error" \notin DOMAIN analysis.result)
    => /\ analysis.result.zscore_outliers = 0
       /\ ~Recommended("zscore")

=============================================================================
